---- MODULE Spec2Model ----
(***************************************************************************)
(* A model of the ECS runtime of IsleGameLab: the World (class ECS) with   *)
(* its entity table, component type index, system caches, double-buffered  *)
(* event queues, observers, the Parent/Children hierarchy, the deferred     *)
(* destruction queue, and the IntentRecorder's record/replay.               *)
(*                                                                         *)
(* A world is a record; every method of ECS is an operator from a world     *)
(* (and the method's arguments) to the world after the call.  Ordered JS   *)
(* containers (Set, Map keys, Array) are sequences in insertion order.      *)
(***************************************************************************)
EXTENDS Naturals, Sequences, FiniteSets, TLC

VARIABLES
  ecs,        \* the World under test; the live world W1 of a recording
  pc,         \* "idle", or "run" while update() is inside runStage
  runSys,     \* index (in ecs.systems) of the system whose update() is executing
  runPos,     \* how many slots of that system's cache the iterator has passed
  visited,    \* entities yielded to the executing system so far in this run
  atStart,    \* the executing system's cache when its run started
  pushed,     \* event id -> its type and the number of swaps since its pushEvent
  triggered,  \* arguments of the trigger() call, when the latest call was one
  session,    \* the IntentRecorder, the intents made, and the replay world;
              \* the frame count of the application's tick loop
  despawned,  \* per despawnRecursive call since the last flush: its root and
              \* the entities it queued
  thrownBy    \* the system whose update() threw in the latest update(), or 0

\* The variables that only record what calls have done.
history == <<despawned, thrownBy>>

vars == <<ecs, pc, runSys, runPos, visited, atStart, pushed, triggered, session,
          history>>

----------------------------------------------------------------------------
\* Bounds of the model.

MaxEntities == 2
MaxInst == 3
MaxSystems == 2
MaxQueue == 2
MaxRunEntities == 2
MaxRunInst == 3
MaxRunSystems == 1
MaxPendEntities == 2
MaxPendInst == 2
MaxPendQueue == 1
MaxRunQueue == 2
MaxIndexEntities == 2
MaxIndexInst == 2
MaxHierEntities == 3
MaxHierInst == 4
MaxDespEntities == 3
MaxDespInst == 4
MaxEvents == 3
MaxObsEntities == 2
MaxObservers == 3
MaxObsInst == 2
MaxIntents == 2
MaxAppIntents == 2
MaxNoteEntities == 1
MaxNoteInst == 1
MaxNoteSystems == 1
MaxNoteCallbacks == 2
MaxThrowEntities == 2
MaxThrowInst == 2
MaxThrowQueue == 1
MaxStageIntents == 2
MaxStageQueue == 2
MaxRecords == 2
MaxRecCalls == 6
MaxStyleEntities == 2
MaxStyleInst == 2
MaxStyleSystems == 3
MaxSubEntities == 3
MaxSubInst == 4
MaxSubQueue == 3
MaxStack == 4
MaxStoreOps == 3
MaxFrames == 3
MaxTickDepth == 2
MaxTickIntents == 1
MaxNameLen == 3
MaxRestoreLogins == 2
MaxRestoreStarts == 2
MaxAborts == 2
MaxGoneEntities == 2
MaxGoneInst == 2
MaxGoneQueue == 1
MaxLoginIntents == 2

----------------------------------------------------------------------------
\* Value spaces.

NoEnt == 99
NoInst == 0
IntentTypes == {"LoginIntent", "NavigateIntent", "SnakeDirectionIntent"}
CompTypes == {"A", "B", "Parent", "Children", "Snake", "SnakeGameActive",
              "LifecycleTestComponent"}
               \cup IntentTypes
DataTypes == {"A", "B"}
EvTypes == {"E1", "E2"}
AllEvTypes == EvTypes \cup {"OnAdd", "OnRemove", "NavigationCompletedEvent",
                            "UserLoggedInEvent", "UIErrorEvent"}
Views == {"main-menu", "login", "game"}
Usernames == {<<"alice">>, <<" ">>}
Times == {1, 2}
Priorities == {0, 1}
Directions == {"Up", "Down", "Left", "Right"}
Callbacks == {"f", "g"}

Range(s) == {s[i] : i \in 1 .. Len(s)}

\* Set.prototype.add on an insertion-ordered set: append unless present.
SetAdd(s, x) == IF x \in Range(s) THEN s ELSE Append(s, x)

\* Set.prototype.delete / Array splice of the first occurrence.
SetDelete(s, x) == SelectSeq(s, LAMBDA y : y # x)

----------------------------------------------------------------------------
\* The World after construction.

NewWorld ==
  [ entities          |-> {},
    nextEntityID      |-> 0,
    destroyed         |-> {},
    components        |-> << >>,
    insts             |-> << >>,
    componentsByType  |-> [t \in CompTypes |-> << >>],
    systems           |-> << >>,
    cache             |-> << >>,
    eventQueues       |-> [t \in EvTypes |-> << >>],
    nextFrameEvents   |-> [t \in EvTypes |-> << >>],
    nextEvent         |-> 1,
    entitiesToDestroy |-> << >>,
    globalObservers   |-> [t \in AllEvTypes |-> << >>],
    entityObservers   |-> << >>,
    resources         |-> << >>,
    initializeSystems |-> [t \in CompTypes |-> << >>],
    destroySystems    |-> [t \in CompTypes |-> << >>],
    calls             |-> << >>,
    notified          |-> << >>,
    acted             |-> << >> ]

\* Entity.has / Entity.get / Entity._hasAll
has(w, e, t) == w.components[e][t] # NoInst
get(w, e, t) == w.components[e][t]
hasAll(w, e, req) == \A k \in 1 .. Len(req) : has(w, e, req[k])

\* Entity.isDestroyed
isDestroyed(w, e) == e \in w.destroyed

\* ECS.createEntity.  Entity ids start at 0; the maps over entities are
\* functions on the ids created so far.
Created(w) == 0 .. (w.nextEntityID - 1)

Extend(f, n, v) == [e \in 0 .. n |-> IF e < n THEN f[e] ELSE v]

createEntity(w) ==
  [w EXCEPT !.entities = @ \cup {w.nextEntityID},
            !.nextEntityID = @ + 1,
            !.components = Extend(@, w.nextEntityID, [t \in CompTypes |-> NoInst]),
            !.entityObservers = Extend(@, w.nextEntityID, [t \in AllEvTypes |-> << >>])]

\* ECS.checkES for one system index s.
checkES(w, e, s) ==
  IF w.systems[s].isGlobal THEN w
  ELSE IF hasAll(w, e, w.systems[s].req)
       THEN [w EXCEPT !.cache[s] = SetAdd(@, e)]
       ELSE [w EXCEPT !.cache[s] = SetDelete(@, e)]

\* ECS.checkE: checkES against every registered system, in registration order.
RECURSIVE checkEFrom(_, _, _)
checkEFrom(w, e, s) ==
  IF s > Len(w.systems) THEN w
  ELSE checkEFrom(checkES(w, e, s), e, s + 1)

checkE(w, e) == checkEFrom(w, e, 1)

\* ECS.trigger: the entity-scoped observers of the target for this event
\* type, then the global observers of the type; each call is appended to
\* the call trace.  target = NoEnt stands for an omitted target.
ObserverCalls(cbs, t, target) ==
  [k \in 1 .. Len(cbs) |-> [cb |-> cbs[k], ev |-> t, target |-> target]]

\* A trigger that treats the global observers as a fallback, used only
\* when no target is given.
triggerScopedOnly(w, t, target) ==
  [w EXCEPT !.calls = @ \o (IF target # NoEnt
                            THEN ObserverCalls(w.entityObservers[target][t], t, target)
                            ELSE ObserverCalls(w.globalObservers[t], t, target))]

trigger(w, t, target) ==
  LET scoped == IF target # NoEnt
                THEN ObserverCalls(w.entityObservers[target][t], t, target)
                ELSE << >>
      global == ObserverCalls(w.globalObservers[t], t, target)
  IN [w EXCEPT !.calls = @ \o scoped \o global]

\* The callbacks that trigger(event, target) calls, in call order.
Observers(w, t, target) ==
  (IF target # NoEnt THEN w.entityObservers[target][t] ELSE << >>)
    \o w.globalObservers[t]

\* The component classes that define the static hooks onAdd / onRemove and
\* only record the call.
Hooked == {"LifecycleTestComponent"}

\* What a notification of addComponent / removeComponent about component
\* i of entity e finds when it is called: whether e.has(type), what
\* e.get(type) returns, whether i is in the type index, and whether e is
\* in the cache of every system it matches.
Seen(w, op, kind, cb, e, i) ==
  LET t == w.insts[i].type
  IN [op |-> op, kind |-> kind, cb |-> cb, entity |-> e, component |-> i,
      has |-> has(w, e, t), got |-> get(w, e, t),
      indexed |-> i \in Range(w.componentsByType[t]),
      cached |-> \A s \in 1 .. Len(w.systems) :
                   (~w.systems[s].isGlobal /\ hasAll(w, e, w.systems[s].req))
                     => e \in Range(w.cache[s])]

\* The callbacks cbs are called one after the other; none changes the World.
NotifyEach(w, op, kind, cbs, e, i) ==
  [w EXCEPT !.notified = @ \o [k \in 1 .. Len(cbs) |-> Seen(w, op, kind, cbs[k], e, i)]]

\* ECS.addInitializeSystem / ECS.addDestroySystem
addInitializeSystem(w, t, cb) == [w EXCEPT !.initializeSystems[t] = SetAdd(@, cb)]

addDestroySystem(w, t, cb) == [w EXCEPT !.destroySystems[t] = SetAdd(@, cb)]

\* `new C(...)`: a fresh component instance, not yet attached.  The id of
\* the instance is its position in w.insts.
newInst(w, t, v) ==
  [w EXCEPT !.insts = Append(@, [type |-> t, entity |-> NoEnt, value |-> v])]

\* Children.value of an instance, pushed to / spliced by the Parent hooks.
pushChild(w, i, e) ==
  IF e \in Range(w.insts[i].value) THEN w
  ELSE [w EXCEPT !.insts[i].value = Append(@, e)]

spliceChild(w, i, e) ==
  LET v == w.insts[i].value
      idx == IF e \in Range(v)
             THEN CHOOSE k \in 1 .. Len(v) :
                    v[k] = e /\ \A j \in 1 .. (k - 1) : v[j] # e
             ELSE 0
  IN IF idx = 0 THEN w
     ELSE [w EXCEPT !.insts[i].value =
             [k \in 1 .. (Len(v) - 1) |-> IF k < idx THEN v[k] ELSE v[k + 1]]]

\* ECS.addComponent, with the static hook Parent.onAdd (the only component
\* class of the core that defines onAdd).
RECURSIVE addComponent(_, _, _)
ParentOnAdd(w, e) ==
  LET pc0 == get(w, e, "Parent")
  IN IF pc0 = NoInst THEN w
     ELSE LET p    == w.insts[pc0].value
              had  == get(w, p, "Children")
              w1   == IF had = NoInst
                      THEN addComponent(newInst(w, "Children", << >>), p,
                                        Len(w.insts) + 1)
                      ELSE w
              cc   == IF had = NoInst THEN Len(w.insts) + 1 ELSE had
          IN pushChild(w1, cc, e)

\* An addComponent that runs the initialize callbacks before the
\* membership re-check.
addComponentUnchecked(w, e, i) ==
  LET t  == w.insts[i].type
      w1 == [w EXCEPT !.insts[i].entity = e,
                      !.components[e][t] = i,
                      !.componentsByType[t] = SetAdd(@, i)]
      w2 == NotifyEach(w1, "add", "callback", w1.initializeSystems[t], e, i)
      w3 == checkE(w2, e)
      w4 == IF t = "Parent" THEN ParentOnAdd(w3, e)
            ELSE IF t \in Hooked THEN NotifyEach(w3, "add", "hook", <<"onAdd">>, e, i)
            ELSE w3
      w5 == NotifyEach(w4, "add", "observer", Observers(w4, "OnAdd", e), e, i)
  IN trigger(w5, "OnAdd", e)

addComponent(w, e, i) ==
  LET t  == w.insts[i].type
      w1 == [w EXCEPT !.insts[i].entity = e,
                      !.components[e][t] = i,
                      !.componentsByType[t] = SetAdd(@, i)]
      w2 == checkE(w1, e)
      w3 == NotifyEach(w2, "add", "callback", w2.initializeSystems[t], e, i)
      w4 == IF t = "Parent" THEN ParentOnAdd(w3, e)
            ELSE IF t \in Hooked THEN NotifyEach(w3, "add", "hook", <<"onAdd">>, e, i)
            ELSE w3
      w5 == NotifyEach(w4, "add", "observer", Observers(w4, "OnAdd", e), e, i)
  IN trigger(w5, "OnAdd", e)

\* The static hook Parent.onRemove.
ParentOnRemove(w, e) ==
  LET pc0 == get(w, e, "Parent")
  IN IF pc0 = NoInst THEN w
     ELSE LET p == w.insts[pc0].value
          IN IF isDestroyed(w, p) THEN w
             ELSE IF get(w, p, "Children") = NoInst THEN w
                  ELSE spliceChild(w, get(w, p, "Children"), e)

\* A removeComponent that detaches before it notifies.
removeComponentDetachFirst(w, e, t) ==
  IF ~has(w, e, t) THEN w
  ELSE LET component == get(w, e, t)
           w0 == [w EXCEPT !.components[e][t] = NoInst,
                           !.componentsByType[t] = SetDelete(@, component)]
           w1 == NotifyEach(w0, "remove", "callback", w0.destroySystems[t], e, component)
           w2 == IF t = "Parent" THEN ParentOnRemove(w1, e)
                 ELSE IF t \in Hooked
                      THEN NotifyEach(w1, "remove", "hook", <<"onRemove">>, e, component)
                 ELSE w1
           w3 == NotifyEach(w2, "remove", "observer", Observers(w2, "OnRemove", e),
                            e, component)
       IN checkE(trigger(w3, "OnRemove", e), e)

\* ECS.removeComponent
removeComponent(w, e, t) ==
  IF ~has(w, e, t) THEN w
  ELSE LET component == get(w, e, t)
           w1 == NotifyEach(w, "remove", "callback", w.destroySystems[t], e, component)
           w2 == IF t = "Parent" THEN ParentOnRemove(w1, e)
                 ELSE IF t \in Hooked
                      THEN NotifyEach(w1, "remove", "hook", <<"onRemove">>, e, component)
                 ELSE w1
           w3 == NotifyEach(w2, "remove", "observer", Observers(w2, "OnRemove", e),
                            e, component)
           w4 == trigger(w3, "OnRemove", e)
           w5 == [w4 EXCEPT !.components[e][t] = NoInst,
                            !.componentsByType[t] = SetDelete(@, component)]
       IN checkE(w5, e)

\* ECS.destroyEntity
destroyEntity(w, e) ==
  [w EXCEPT !.destroyed = @ \cup {e},
            !.entityObservers[e] = [t \in AllEvTypes |-> << >>],
            !.entities = @ \ {e},
            !.cache = [s \in 1 .. Len(w.cache) |-> SetDelete(w.cache[s], e)]]

\* A removeEntity that destroys at once instead of queueing.
removeEntityNow(w, e) == destroyEntity(w, e)

\* ECS.removeEntity: only queues.
removeEntity(w, e) ==
  [w EXCEPT !.entitiesToDestroy = Append(@, e)]

\* The flush loop at the end of ECS.update: pop and destroy until empty.
RECURSIVE flush(_)
flush(w) ==
  IF w.entitiesToDestroy = << >> THEN w
  ELSE LET n == Len(w.entitiesToDestroy)
           e == w.entitiesToDestroy[n]
       IN flush(destroyEntity(
            [w EXCEPT !.entitiesToDestroy = SubSeq(@, 1, n - 1)], e))

\* The first two statements of ECS.update: swap the event buffers.
swapEvents(w) ==
  [w EXCEPT !.eventQueues = w.nextFrameEvents,
            !.nextFrameEvents = [t \in EvTypes |-> << >>]]

\* A pushEvent that writes into the buffer being read this frame.
pushEventNow(w, t) ==
  [w EXCEPT !.eventQueues[t] = Append(@, w.nextEvent),
            !.nextEvent = @ + 1]

\* ECS.pushEvent; the event object is identified by w.nextEvent.
pushEvent(w, t) ==
  [w EXCEPT !.nextFrameEvents[t] = Append(@, w.nextEvent),
            !.nextEvent = @ + 1]

\* ECS.readEvents
readEvents(w, t) == w.eventQueues[t]

\* ECS.query: the instances of the type index, in insertion order.
query(w, t) == w.componentsByType[t]

\* ECS.addObserver / ECS.addEntityObserver
addObserver(w, t, cb) ==
  [w EXCEPT !.globalObservers[t] = SetAdd(@, cb)]

addEntityObserver(w, e, t, cb) ==
  [w EXCEPT !.entityObservers[e][t] = SetAdd(@, cb)]

\* ECS.registerSystem: a new cache, then checkES for every entity of the
\* entity table (a Map, iterated in insertion order, i.e. by ascending id).
RECURSIVE registerFrom(_, _, _)
registerFrom(w, s, e) ==
  IF e >= w.nextEntityID THEN w
  ELSE registerFrom(IF e \in w.entities THEN checkES(w, e, s) ELSE w, s, e + 1)

registerSystem(w, sys) ==
  LET w1 == [w EXCEPT !.systems = Append(@, sys),
                      !.cache = Append(@, << >>)]
  IN registerFrom(w1, Len(w1.systems), 0)

\* ECS.addSystem(stage, system): class-style.  A system record holds the
\* componentsRequired list, the isGlobal flag, the stage it runs in ("None"
\* for a Query that is only tracked) and the index of the system whose
\* cache its update iterates.
addSystem(w, stage, req, isGlobal) ==
  registerSystem(w, [req |-> req, isGlobal |-> isGlobal, stage |-> stage,
                     iter |-> Len(w.systems) + 1, body |-> "None"])

\* A function-style addSystem whose Query starts with an empty cache.
addSystemFnUnfilled(w, stage, req) ==
  LET q  == Len(w.systems) + 1
      w1 == [w EXCEPT !.systems = Append(@, [req |-> req, isGlobal |-> FALSE,
                                             stage |-> "None", iter |-> q,
                                             body |-> "None"]),
                      !.cache = Append(@, << >>)]
  IN registerSystem(w1, [req |-> << >>, isGlobal |-> TRUE,
                         stage |-> stage, iter |-> q, body |-> "fn"])

\* ECS.addSystem(stage, [query(...)], fn): function-style.  The Query is
\* registered for tracking, then a global wrapper system that hands the
\* Query to the callback is registered and put in the stage.
addSystemFn(w, stage, req) ==
  LET q  == Len(w.systems) + 1
      w1 == registerSystem(w, [req |-> req, isGlobal |-> FALSE,
                               stage |-> "None", iter |-> q, body |-> "None"])
  IN registerSystem(w1, [req |-> << >>, isGlobal |-> TRUE,
                         stage |-> stage, iter |-> q, body |-> "fn"])

\* Query.with(type)
queryWith(w, s, t) ==
  IF t \in Range(w.systems[s].req) THEN w
  ELSE [w EXCEPT !.systems[s].req = Append(@, t)]

\* ECS.getSystemEntities
getSystemEntities(w, s) == w.cache[s]

\* ECS.getParent / ECS.getChildren
getParent(w, e) ==
  IF has(w, e, "Parent") THEN w.insts[get(w, e, "Parent")].value ELSE NoEnt

getChildren(w, e) ==
  IF has(w, e, "Children") THEN w.insts[get(w, e, "Children")].value ELSE << >>

\* ECS.setParent: child.add(new Parent(parent)).
setParent(w, child, parent) ==
  addComponent(newInst(w, "Parent", parent), child, Len(w.insts) + 1)

\* ECS.removeParent
removeParent(w, e) == removeComponent(w, e, "Parent")

\* ECS.despawnRecursive: the children (a copy of the list) first, then the
\* entity itself; every one of them is only queued.
RECURSIVE despawnRecursive(_, _)
RECURSIVE despawnEach(_, _, _)
despawnEach(w, children, k) ==
  IF k > Len(children) THEN w
  ELSE despawnEach(despawnRecursive(w, children[k]), children, k + 1)

despawnRecursive(w, e) ==
  removeEntity(despawnEach(w, getChildren(w, e), 1), e)

\* Entities reachable from the set S through Children links in at most k steps.
RECURSIVE Reach(_, _, _)
Reach(w, S, k) ==
  IF k = 0 THEN S
  ELSE Reach(w, S \cup UNION {Range(getChildren(w, x)) : x \in S}, k - 1)

Descendants(w, e) == Reach(w, Range(getChildren(w, e)), w.nextEntityID)

\* despawnRecursive(e) returns iff no Children cycle is reachable from e
\* (on a cycle the recursion never ends).
Terminates(w, e) ==
  \A x \in {e} \cup Descendants(w, e) : x \notin Descendants(w, x)

\* A despawnRecursive that queues the entity and none of its children.
despawnSelf(w, e, depth) == [world |-> removeEntity(w, e), thrown |-> FALSE]

\* ECS.despawnRecursive on a call stack with room for depth more frames:
\* the world after the call, and whether the call threw (RangeError, the
\* stack exhausted) instead of returning.  A frame that throws queues
\* nothing more; what the frames that returned before it queued stays.
RECURSIVE despawnWithin(_, _, _)
RECURSIVE despawnEachWithin(_, _, _, _)
despawnEachWithin(w, children, k, depth) ==
  IF k > Len(children) THEN [world |-> w, thrown |-> FALSE]
  ELSE LET r == despawnWithin(w, children[k], depth)
       IN IF r.thrown THEN r
          ELSE despawnEachWithin(r.world, children, k + 1, depth)

despawnWithin(w, e, depth) ==
  IF depth = 0 THEN [world |-> w, thrown |-> TRUE]
  ELSE LET r == despawnEachWithin(w, getChildren(w, e), 1, depth - 1)
       IN IF r.thrown THEN r
          ELSE [world |-> removeEntity(r.world, e), thrown |-> FALSE]

----------------------------------------------------------------------------
\* The state machine of one World driven by its callers and by the bodies
\* of its systems.  The core is single-threaded: while update() is inside
\* runStage (pc = "run") every World call is made by the body of the system
\* that is executing, between two steps of its iteration.

NoTrigger == [ev |-> "", target |-> NoEnt]

----------------------------------------------------------------------------
\* Resources, the gameplay systems, and update() as one call.

\* ECS.insertResource / ECS.getResource
insertResource(w, r, v) ==
  [w EXCEPT !.resources = [x \in DOMAIN w.resources \cup {r} |->
                             IF x = r THEN v ELSE w.resources[x]]]

getResource(w, r) == w.resources[r]

\* new GameState()
GameState == [isPaused |-> FALSE, currentScene |-> "main-menu"]

\* GameState.navigateTo
navigateTo(w, scene) == [w EXCEPT !.resources["GameState"].currentScene = scene]

\* new UserSession()
UserSession == [username |-> "null", isLoggedIn |-> FALSE, loginTimestamp |-> 0]

\* UserSession.setLoggedIn, called when Date.now() is now.
setLoggedIn(w, username, now) ==
  [w EXCEPT !.resources["UserSession"].username = username,
            !.resources["UserSession"].isLoggedIn = TRUE,
            !.resources["UserSession"].loginTimestamp = now]

----------------------------------------------------------------------------
\* Persistence of the UserSession: Serializer and StorageManager.
\*
\* A string kept in storage is a record: form is "empty" for '', "garbage"
\* for text that JSON.parse rejects, "null" for the text null, and
\* "object" for the text of an object, whose members are listed in entries
\* with the type and the text of each value.  NoItem is the null that
\* getItem returns for a missing key.

NoItem == [form |-> "none", entries |-> << >>]

\* The decimal text of a number, and the number that a decimal text denotes.
Digits == <<"0", "1", "2", "3">>
NumText(n) == Digits[n + 1]
TextNum(t) == CHOOSE n \in 0 .. Len(Digits) - 1 : Digits[n + 1] = t

\* Serializer.serializeUserSession: << >> for null.
serializeUserSession(w) ==
  IF "UserSession" \notin DOMAIN w.resources THEN << >>
  ELSE LET userSession == getResource(w, "UserSession")
       IN <<[username |-> userSession.username,
             isLoggedIn |-> userSession.isLoggedIn,
             loginTimestamp |-> userSession.loginTimestamp]>>

\* A JSON.stringify that writes every number as 0.
stringifyZero(data) ==
  [form |-> "object",
   entries |-> <<[key |-> "username",
                  type |-> IF data.username = "null" THEN "null" ELSE "string",
                  text |-> data.username],
                 [key |-> "isLoggedIn", type |-> "boolean",
                  text |-> IF data.isLoggedIn THEN "true" ELSE "false"],
                 [key |-> "loginTimestamp", type |-> "number", text |-> NumText(0)]>>]

\* JSON.stringify(data) of a StoredUserSession.
stringify(data) ==
  [form |-> "object",
   entries |-> <<[key |-> "username",
                  type |-> IF data.username = "null" THEN "null" ELSE "string",
                  text |-> data.username],
                 [key |-> "isLoggedIn", type |-> "boolean",
                  text |-> IF data.isLoggedIn THEN "true" ELSE "false"],
                 [key |-> "loginTimestamp", type |-> "number",
                  text |-> NumText(data.loginTimestamp)]>>]

\* JSON.parse(serialized): it throws on text that is not JSON; the value
\* is null or an object, given by the type and text of each member
\* ("undefined" for a member that the object does not have).
parse(serialized) ==
  IF serialized.form \in {"empty", "garbage"}
  THEN [threw |-> TRUE, isObject |-> FALSE, member |-> << >>]
  ELSE [threw |-> FALSE,
        isObject |-> serialized.form = "object",
        member |-> [k \in {"username", "isLoggedIn", "loginTimestamp"} |->
                      LET at == {j \in 1 .. Len(serialized.entries) :
                                   serialized.entries[j].key = k}
                      IN IF at = {} THEN [type |-> "undefined", text |-> ""]
                         ELSE LET j == CHOOSE x \in at : \A y \in at : y <= x
                              IN [type |-> serialized.entries[j].type,
                                  text |-> serialized.entries[j].text]]]

\* Serializer.validateUserSessionData
validateUserSessionData(data) ==
  /\ data.isObject
  /\ data.member["username"].type \in {"null", "string"}
  /\ data.member["isLoggedIn"].type = "boolean"
  /\ data.member["loginTimestamp"].type = "number"

\* A deserializeUserSession that assigns the fields one at a time and stops
\* at the first one of a wrong type.
deserializeWhileValid(w, data) ==
  LET w1 == IF "UserSession" \in DOMAIN w.resources THEN w
            ELSE insertResource(w, "UserSession", UserSession)
  IN IF ~data.isObject \/ data.member["username"].type \notin {"null", "string"} THEN w1
     ELSE LET w2 == [w1 EXCEPT !.resources["UserSession"].username =
                                 IF data.member["username"].type = "null" THEN "null"
                                 ELSE data.member["username"].text]
          IN IF data.member["isLoggedIn"].type # "boolean" THEN w2
             ELSE LET w3 == [w2 EXCEPT !.resources["UserSession"].isLoggedIn =
                                         data.member["isLoggedIn"].text = "true"]
                  IN IF data.member["loginTimestamp"].type # "number" THEN w3
                     ELSE [w3 EXCEPT !.resources["UserSession"].loginTimestamp =
                                       TextNum(data.member["loginTimestamp"].text)]

\* Serializer.deserializeUserSession, for data that passed the validation.
deserializeUserSession(w, data) ==
  LET w1 == IF "UserSession" \in DOMAIN w.resources THEN w
            ELSE insertResource(w, "UserSession", UserSession)
  IN [w1 EXCEPT !.resources["UserSession"] =
        [username |-> IF data.member["username"].type = "null" THEN "null"
                      ELSE data.member["username"].text,
         isLoggedIn |-> data.member["isLoggedIn"].text = "true",
         loginTimestamp |-> TextNum(data.member["loginTimestamp"].text)]]

\* The StorageManager and the browser's localStorage as one record st:
\* localStorage and memoryStorage hold the item under USER_SESSION_KEY,
\* isMemoryMode is the static flag, and mode says how localStorage behaves:
\* "ok"; "full", where setItem of the session throws (the quota is
\* exceeded) although the availability probe passes; "down", where every
\* call throws.
NewStorage(item, mode) ==
  [localStorage |-> item, mode |-> mode, memoryStorage |-> NoItem, isMemoryMode |-> FALSE]

\* StorageManager.isLocalStorageAvailable: the probe, its exception caught.
isLocalStorageAvailable(st) == st.mode # "down"

\* this.memoryStorage.get(key) || null
memoryGet(st) == IF st.memoryStorage.form = "empty" THEN NoItem ELSE st.memoryStorage

\* A getItem that probes localStorage before it looks at the flag.
getItemProbeFirst(st) ==
  IF isLocalStorageAvailable(st)
  THEN [st |-> [st EXCEPT !.isMemoryMode = FALSE], value |-> st.localStorage,
        threw |-> FALSE]
  ELSE [st |-> [st EXCEPT !.isMemoryMode = TRUE], value |-> memoryGet(st), threw |-> FALSE]

\* StorageManager.getItem
getItem(st) ==
  IF st.isMemoryMode \/ ~isLocalStorageAvailable(st)
  THEN [st |-> [st EXCEPT !.isMemoryMode = TRUE], value |-> memoryGet(st), threw |-> FALSE]
  ELSE IF st.mode = "down"
       THEN [st |-> [st EXCEPT !.isMemoryMode = TRUE], value |-> memoryGet(st),
             threw |-> FALSE]
       ELSE [st |-> st, value |-> st.localStorage, threw |-> FALSE]

\* A setItem that gives up when localStorage is not available.
setItemNoFallback(st, value) ==
  IF st.isMemoryMode
  THEN [st |-> [st EXCEPT !.memoryStorage = value], ok |-> TRUE, threw |-> FALSE]
  ELSE IF st.mode # "ok" THEN [st |-> st, ok |-> FALSE, threw |-> FALSE]
       ELSE [st |-> [st EXCEPT !.localStorage = value], ok |-> TRUE, threw |-> FALSE]

\* StorageManager.setItem
setItem(st, value) ==
  IF st.isMemoryMode \/ ~isLocalStorageAvailable(st)
  THEN [st |-> [st EXCEPT !.isMemoryMode = TRUE, !.memoryStorage = value],
        ok |-> TRUE, threw |-> FALSE]
  ELSE IF st.mode # "ok"
       THEN [st |-> [st EXCEPT !.isMemoryMode = TRUE, !.memoryStorage = value],
             ok |-> FALSE, threw |-> FALSE]
       ELSE [st |-> [st EXCEPT !.localStorage = value], ok |-> TRUE, threw |-> FALSE]

\* StorageManager.removeItem
removeItem(st) ==
  IF st.isMemoryMode \/ ~isLocalStorageAvailable(st)
  THEN [st |-> [st EXCEPT !.isMemoryMode = TRUE, !.memoryStorage = NoItem],
        ok |-> TRUE, threw |-> FALSE]
  ELSE IF st.mode = "down" THEN [st |-> st, ok |-> FALSE, threw |-> FALSE]
       ELSE [st |-> [st EXCEPT !.localStorage = NoItem], ok |-> TRUE, threw |-> FALSE]

\* StorageManager.reset
reset(st) == [st EXCEPT !.isMemoryMode = FALSE, !.memoryStorage = NoItem]

\* StorageManager.saveUserSession: the store after the call, the value
\* returned, and whether an error reached the caller.
saveUserSession(st, w) ==
  LET data == serializeUserSession(w)
  IN IF data = << >> THEN [st |-> st, result |-> FALSE, threw |-> FALSE]
     ELSE LET r == setItem(st, stringify(data[1]))
          IN [st |-> r.st, result |-> ~r.threw, threw |-> FALSE]

\* StorageManager.clearUserSession
clearUserSession(st) ==
  LET r == removeItem(st)
  IN [st |-> r.st, result |-> r.ok /\ ~r.threw, threw |-> FALSE]

\* A loadUserSession that restores before it validates.
loadUserSessionUnchecked(st, w) ==
  LET g == getItem(st)
  IN IF g.threw \/ g.value = NoItem \/ g.value.form = "empty"
     THEN [st |-> g.st, world |-> w, result |-> FALSE, threw |-> FALSE]
     ELSE LET data == parse(g.value)
          IN IF data.threw
             THEN [st |-> clearUserSession(g.st).st, world |-> w,
                   result |-> FALSE, threw |-> FALSE]
             ELSE IF ~validateUserSessionData(data)
                  THEN [st |-> clearUserSession(g.st).st,
                        world |-> deserializeWhileValid(w, data),
                        result |-> FALSE, threw |-> FALSE]
                  ELSE [st |-> g.st, world |-> deserializeUserSession(w, data),
                        result |-> TRUE, threw |-> FALSE]

\* StorageManager.loadUserSession: also the world after the call.
loadUserSession(st, w) ==
  LET g == getItem(st)
  IN IF g.threw \/ g.value = NoItem \/ g.value.form = "empty"
     THEN [st |-> IF g.threw THEN clearUserSession(g.st).st ELSE g.st,
           world |-> w, result |-> FALSE, threw |-> FALSE]
     ELSE LET data == parse(g.value)
          IN IF data.threw \/ ~validateUserSessionData(data)
             THEN [st |-> clearUserSession(g.st).st, world |-> w,
                   result |-> FALSE, threw |-> FALSE]
             ELSE [st |-> g.st, world |-> deserializeUserSession(w, data),
                   result |-> TRUE, threw |-> FALSE]

\* new SnakeGameResource(): moveDue stands for
\* now - lastMoveTime >= moveInterval.
SnakeGameResource == [isGameRunning |-> FALSE, moveDue |-> FALSE]

\* SnakeGameResource.startGame
startGame(w) ==
  [w EXCEPT !.resources["SnakeGameResource"].isGameRunning = TRUE,
            !.resources["SnakeGameResource"].moveDue = FALSE]

\* new Snake() as createNewGame leaves it; of the body only the
\* directions are kept.
Snake == [direction |-> "Right", nextDirection |-> "Right", isAlive |-> TRUE]

\* new NavigateIntent(targetView) constructed at time now.
NewIntent(t, targetView, now) ==
  [type |-> t,
   fields |-> [targetView |-> targetView, processed |-> FALSE,
               timestamp |-> now, priority |-> 0]]

\* new LoginIntent(username) constructed at time now.
NewLoginIntent(username, now) ==
  [type |-> "LoginIntent",
   fields |-> [username |-> username, processed |-> FALSE,
               timestamp |-> now, priority |-> 0]]

\* new SnakeDirectionIntent(entityId, direction) constructed at time now.
NewSnakeDirectionIntent(entityId, direction, now) ==
  [type |-> "SnakeDirectionIntent",
   fields |-> [entityId |-> entityId, direction |-> direction, processed |-> FALSE,
               timestamp |-> now, priority |-> 0]]

\* ecs.spawn().insert(intent): a new entity, and the intent object added
\* to it.  An intent object is its class name and its own fields.
spawnInsert(w, intent) ==
  LET w1 == createEntity(w)
      w2 == newInst(w1, intent.type, intent.fields)
  IN addComponent(w2, w.nextEntityID, Len(w2.insts))

\* ECS.addSystem(system) for the systems of the game: their
\* componentsRequired and isGlobal are those of the class.
addGameSystemAt(w, stage, body) ==
  registerSystem(w, [req |-> IF body = "Navigation" THEN <<"NavigateIntent">>
                             ELSE IF body = "LoginProcess" THEN <<"LoginIntent">>
                             ELSE IF body = "SnakeMovement" THEN <<"Snake">>
                             ELSE << >>,
                     isGlobal |-> body \in {"Navigation", "IntentCleanup"},
                     stage |-> stage,
                     iter |-> Len(w.systems) + 1, body |-> body])

addGameSystem(w, body) == addGameSystemAt(w, "Update", body)

\* The system acts on intent i: it is past the processed guard.
Act(w, i) == [w EXCEPT !.acted = Append(@, i)]

\* A string that a user types is the sequence of its pieces: a piece is one
\* whitespace character or a run of other characters.  Join is the string
\* as one value, as the UserSession holds it.
Whitespace == {" ", "\t"}

RECURSIVE Join(_)
Join(u) == IF u = << >> THEN "" ELSE Head(u) \o Join(Tail(u))

\* String.prototype.trim: the whitespace at both ends is removed.
RECURSIVE trimStart(_)
trimStart(u) ==
  IF u # << >> /\ Head(u) \in Whitespace THEN trimStart(Tail(u)) ELSE u

RECURSIVE trimEnd(_)
trimEnd(u) ==
  IF u # << >> /\ u[Len(u)] \in Whitespace THEN trimEnd(SubSeq(u, 1, Len(u) - 1)) ELSE u

trim(u) == trimEnd(trimStart(u))

\* UserUtil.validateUsername
validateUsername(u) == Len(trim(u)) > 0

\* UserUtil.validateUsernameWithError(username).valid
validateUsernameWithError(u) ==
  IF Len(u) = 0 THEN FALSE
  ELSE IF Len(trim(u)) = 0 THEN FALSE
  ELSE TRUE

\* A requestLogin that keeps the string as it was typed.
requestLoginAsTyped(w, username, now) ==
  IF ~validateUsernameWithError(username) THEN [world |-> w, result |-> FALSE]
  ELSE [world |-> spawnInsert(w, NewLoginIntent(username, now)), result |-> TRUE]

\* UserUtil.requestLogin at time now: the world after the call and the
\* value returned.
requestLogin(w, username, now) ==
  IF ~validateUsernameWithError(username) THEN [world |-> w, result |-> FALSE]
  ELSE [world |-> spawnInsert(w, NewLoginIntent(trim(username), now)),
        result |-> TRUE]

\* LoginProcessSystem.update: over the live cache of the system, each
\* LoginIntent not yet processed logs the user in and spawns a
\* NavigateIntent, or reports the error, and is marked processed.  No
\* time passes between the construction of the intent and the update:
\* Date.now() in setLoggedIn is read as the intent's timestamp.
RECURSIVE LoginProcessLoop(_, _, _)
LoginProcessLoop(w, s, k) ==
  IF k > Len(w.cache[s]) THEN w
  ELSE LET i == get(w, w.cache[s][k], "LoginIntent")
       IN IF w.insts[i].value.processed THEN LoginProcessLoop(w, s, k + 1)
          ELSE LET username == trim(w.insts[i].value.username)
                   w1 == IF validateUsernameWithError(username)
                         THEN trigger(spawnInsert(setLoggedIn(Act(w, i), Join(username),
                                                              w.insts[i].value.timestamp),
                                                  NewIntent("NavigateIntent", "main-menu",
                                                            w.insts[i].value.timestamp)),
                                      "UserLoggedInEvent", NoEnt)
                         ELSE trigger(Act(w, i), "UIErrorEvent", NoEnt)
                   w2 == [w1 EXCEPT !.insts[i].value.processed = TRUE]
               IN LoginProcessLoop(w2, s, k + 1)

LoginProcessSystem(w, s) == LoginProcessLoop(w, s, 1)

\* A NavigationSystem.update without the processed guard.
RECURSIVE NavigationLoopAgain(_, _, _)
NavigationLoopAgain(w, intents, k) ==
  IF k > Len(intents) THEN w
  ELSE LET i  == intents[k]
           w1 == navigateTo(Act(w, i), w.insts[i].value.targetView)
           w2 == trigger(w1, "NavigationCompletedEvent", NoEnt)
           w3 == [w2 EXCEPT !.insts[i].value.processed = TRUE]
       IN NavigationLoopAgain(w3, intents, k + 1)

\* NavigationSystem.update: over a copy of the NavigateIntent index, each
\* intent not yet processed sets the scene, triggers the completion event
\* and is marked processed.
RECURSIVE NavigationLoop(_, _, _)
NavigationLoop(w, intents, k) ==
  IF k > Len(intents) THEN w
  ELSE LET i == intents[k]
       IN IF w.insts[i].value.processed THEN NavigationLoop(w, intents, k + 1)
          ELSE LET w1 == navigateTo(Act(w, i), w.insts[i].value.targetView)
                   w2 == trigger(w1, "NavigationCompletedEvent", NoEnt)
                   w3 == [w2 EXCEPT !.insts[i].value.processed = TRUE]
               IN NavigationLoop(w3, intents, k + 1)

NavigationSystem(w) == NavigationLoop(w, query(w, "NavigateIntent"), 1)

\* SnakeMovementSystem.isValidDirectionChange: no reversal.
isValidDirectionChange(current, next) ==
  <<current, next>> \notin {<<"Up", "Down">>, <<"Down", "Up">>,
                            <<"Left", "Right">>, <<"Right", "Left">>}

\* System.queryTuple(SnakeGameActive, Snake): the Snake components of the
\* entities of the system's cache that have both.
queryTuple(w, s) ==
  LET es == SelectSeq(w.cache[s], LAMBDA e : has(w, e, "SnakeGameActive") /\ has(w, e, "Snake"))
  IN [k \in 1 .. Len(es) |-> get(w, es[k], "Snake")]

\* The inner loop of handleDirectionChange: every living snake takes the
\* direction unless it is a reversal.
RECURSIVE steer(_, _, _, _)
steer(w, snakes, k, direction) ==
  IF k > Len(snakes) THEN w
  ELSE LET snake == w.insts[snakes[k]].value
       IN steer(IF snake.isAlive /\ isValidDirectionChange(snake.direction, direction)
                THEN [w EXCEPT !.insts[snakes[k]].value.nextDirection = direction]
                ELSE w, snakes, k + 1, direction)

\* SnakeMovementSystem.handleDirectionChange: over a copy of the
\* SnakeDirectionIntent index, each intent not yet processed steers the
\* snakes and is marked processed.
RECURSIVE handleDirectionLoop(_, _, _, _)
handleDirectionLoop(w, s, intents, k) ==
  IF k > Len(intents) THEN w
  ELSE LET i == intents[k]
       IN IF w.insts[i].value.processed THEN handleDirectionLoop(w, s, intents, k + 1)
          ELSE LET w1 == steer(Act(w, i), queryTuple(w, s), 1, w.insts[i].value.direction)
                   w2 == [w1 EXCEPT !.insts[i].value.processed = TRUE]
               IN handleDirectionLoop(w2, s, intents, k + 1)

handleDirectionChange(w, s) ==
  handleDirectionLoop(w, s, query(w, "SnakeDirectionIntent"), 1)

\* SnakeMovementSystem.moveSnake, for the snakes of the system's cache:
\* the living ones turn to their next direction.
RECURSIVE moveSnakes(_, _, _)
moveSnakes(w, s, k) ==
  IF k > Len(w.cache[s]) THEN w
  ELSE LET i == get(w, w.cache[s][k], "Snake")
       IN moveSnakes(IF w.insts[i].value.isAlive
                     THEN [w EXCEPT !.insts[i].value.direction =
                                       w.insts[i].value.nextDirection,
                                    !.resources["SnakeGameResource"].moveDue = FALSE]
                     ELSE w, s, k + 1)

\* SnakeMovementSystem.update: nothing unless a game is running; then the
\* direction intents, then the move when it is due.
SnakeMovementSystem(w, s) ==
  IF ~getResource(w, "SnakeGameResource").isGameRunning THEN w
  ELSE LET w1 == handleDirectionChange(w, s)
       IN IF getResource(w1, "SnakeGameResource").moveDue THEN moveSnakes(w1, s, 1)
          ELSE w1

\* IntentCleanupSystem.update: for each known intent type, every processed
\* intent of the type index has its entity queued for destruction.
INTENT_TYPES == <<"LoginIntent", "NavigateIntent">>

RECURSIVE CleanupLoop(_, _, _)
CleanupLoop(w, t, k) ==
  IF t > Len(INTENT_TYPES) THEN w
  ELSE LET intents == query(w, INTENT_TYPES[t])
       IN IF k > Len(intents) THEN CleanupLoop(w, t + 1, 1)
          ELSE LET i == intents[k]
               IN CleanupLoop(IF w.insts[i].value.processed
                              THEN removeEntity(w, w.insts[i].entity)
                              ELSE w, t, k + 1)

IntentCleanupSystem(w) == CleanupLoop(w, 1, 1)

\* system.update(componentIterator) of system s, if it is of the stage.
runSystem(w, stage, s) ==
  LET sys == w.systems[s]
  IN IF sys.stage # stage THEN w
     ELSE IF sys.body = "LoginProcess" THEN LoginProcessSystem(w, s)
     ELSE IF sys.body = "Navigation" THEN NavigationSystem(w)
     ELSE IF sys.body = "SnakeMovement" THEN SnakeMovementSystem(w, s)
     ELSE IF sys.body = "IntentCleanup" THEN IntentCleanupSystem(w)
     ELSE w

\* ECS.runStage as one call: the systems of the stage in registration order.
RECURSIVE runStageFrom(_, _, _)
runStageFrom(w, stage, s) ==
  IF s > Len(w.systems) THEN w
  ELSE runStageFrom(runSystem(w, stage, s), stage, s + 1)

\* The part of runStage before system thrower is called.
RECURSIVE runStageBefore(_, _, _, _)
runStageBefore(w, stage, s, thrower) ==
  IF s >= thrower THEN w
  ELSE runStageBefore(runSystem(w, stage, s), stage, s + 1, thrower)

runStage(w, stage) == runStageFrom(w, stage, 1)

\* ECS.update as one call.
update(w) == flush(runStage(swapEvents(w), "Update"))

\* An aborted update() that forgets the entities queued for destruction.
updateThrowingDropsQueue(w, thrower) ==
  [runStageBefore(swapEvents(w), "Update", 1, thrower) EXCEPT !.entitiesToDestroy = << >>]

\* ECS.update when the update() of system thrower throws as soon as it is
\* called: the systems registered before it have run, the later ones and
\* the destruction flush are skipped.
updateThrowing(w, thrower) == runStageBefore(swapEvents(w), "Update", 1, thrower)

\* A GameWorld.update without the try/catch.
gameWorldUpdateUncaught(w, thrower) ==
  IF thrower = 0 THEN [world |-> update(w), logged |-> FALSE, threw |-> FALSE]
  ELSE [world |-> updateThrowing(w, thrower), logged |-> FALSE, threw |-> TRUE]

\* GameWorld.update of an initialized GameWorld, in a frame in which system
\* thrower throws (0: none does): the world after the call, whether the
\* error was logged, and whether it reached the caller.
gameWorldUpdate(w, thrower) ==
  IF thrower = 0 THEN [world |-> update(w), logged |-> FALSE, threw |-> FALSE]
  ELSE [world |-> updateThrowing(w, thrower), logged |-> TRUE, threw |-> FALSE]

\* A fixedUpdate that ends with the destruction flush.
fixedUpdateFlushing(w) == flush(runStage(w, "FixedUpdate"))

\* ECS.startup / ECS.fixedUpdate
startup(w) == runStage(w, "Startup")

fixedUpdate(w) == runStage(w, "FixedUpdate")

----------------------------------------------------------------------------
\* IntentRecorder.

\* new IntentRecorder()
NewRecorder == [records |-> << >>, isRecording |-> FALSE, intentTypes |-> {}]

\* IntentRecorder.startRecording / stopRecording / registerIntentType
startRecording(r) == [r EXCEPT !.records = << >>, !.isRecording = TRUE]

stopRecording(r) == [r EXCEPT !.isRecording = FALSE]

registerIntentType(r, t) == [r EXCEPT !.intentTypes = @ \cup {t}]

\* The ReplaySession that stopRecording returns: a copy of the records and
\* their number.
ReplaySession(r) ==
  [records |-> r.records, metadata |-> [totalIntents |-> Len(r.records)]]

\* The intent object that is component i of world w: its own fields and
\* the entity back-reference.
IntentObject(w, i) ==
  LET v == w.insts[i].value
  IN [type |-> w.insts[i].type,
      fields |-> [k \in DOMAIN v \cup {"entity"} |->
                    IF k = "entity" THEN w.insts[i].entity ELSE v[k]]]

\* A serializeIntent that copies every own field.
serializeEveryField(intent) == intent.fields

\* IntentRecorder.serializeIntent: every own field but entity and processed.
serializeIntent(intent) ==
  [k \in DOMAIN intent.fields \ {"entity", "processed"} |-> intent.fields[k]]

\* A record that does not look at isRecording.
recordAlways(r, intent) ==
  [r EXCEPT !.records = Append(@, [type |-> intent.type,
                                   data |-> serializeIntent(intent),
                                   timestamp |-> intent.fields.timestamp,
                                   priority |-> intent.fields.priority])]

\* IntentRecorder.record
record(r, intent) ==
  IF ~r.isRecording THEN r
  ELSE [r EXCEPT !.records = Append(@, [type |-> intent.type,
                                        data |-> serializeIntent(intent),
                                        timestamp |-> intent.fields.timestamp,
                                        priority |-> intent.fields.priority])]

\* new IntentClass(): the constructor called without arguments.
Construct(t, now) ==
  IF t = "LoginIntent" THEN NewLoginIntent("undefined", now)
  ELSE IF t = "SnakeDirectionIntent" THEN NewSnakeDirectionIntent("undefined", "undefined", now)
  ELSE NewIntent(t, "undefined", now)

\* A deserializeIntent that does not consult the registered types.
deserializeAny(r, rcd, now) ==
  LET made == Construct(rcd.type, now).fields
  IN <<[type |-> rcd.type,
        fields |-> [k \in DOMAIN made \cup DOMAIN rcd.data |->
                      IF k \in DOMAIN rcd.data THEN rcd.data[k] ELSE made[k]]]>>

\* IntentRecorder.deserializeIntent: << >> for null; otherwise the object
\* made by the constructor without arguments, with the recorded fields
\* assigned over it.
deserializeIntent(r, rcd, now) ==
  IF rcd.type \notin r.intentTypes THEN << >>
  ELSE LET made == Construct(rcd.type, now).fields
       IN <<[type |-> rcd.type,
             fields |-> [k \in DOMAIN made \cup DOMAIN rcd.data |->
                           IF k \in DOMAIN rcd.data THEN rcd.data[k] ELSE made[k]]]>>

\* A sort by timestamp that puts the higher priority first among equal
\* timestamps.
RECURSIVE sortTiesByPriority(_)
sortTiesByPriority(records) ==
  IF records = << >> THEN << >>
  ELSE LET n    == Len(records)
           last == records[n]
           head == sortTiesByPriority(SubSeq(records, 1, n - 1))
           keep == {k \in 1 .. Len(head) :
                      \/ head[k].timestamp < last.timestamp
                      \/ /\ head[k].timestamp = last.timestamp
                         /\ head[k].priority >= last.priority}
           at   == Cardinality(keep)
       IN SubSeq(head, 1, at) \o <<last>> \o SubSeq(head, at + 1, Len(head))

\* [...records].sort((a, b) => a.timestamp - b.timestamp): a stable sort.
RECURSIVE sortByTimestamp(_)
sortByTimestamp(records) ==
  IF records = << >> THEN << >>
  ELSE LET n    == Len(records)
           last == records[n]
           head == sortByTimestamp(SubSeq(records, 1, n - 1))
           keep == {k \in 1 .. Len(head) : head[k].timestamp <= last.timestamp}
           at   == Cardinality(keep)
       IN SubSeq(head, 1, at) \o <<last>> \o SubSeq(head, at + 1, Len(head))

\* IntentRecorder.replay: each record in timestamp order is deserialized,
\* spawned with its intent, and processed by an update().
\* A loop body of replay that spawns the intent and leaves the update()
\* to the caller.
replayRecordSpawnOnly(w, r, rcd, now) ==
  LET intent == deserializeIntent(r, rcd, now)
  IN IF intent = << >> THEN w ELSE spawnInsert(w, intent[1])

\* The loop body of replay for one record.
replayRecord(w, r, rcd, now) ==
  LET intent == deserializeIntent(r, rcd, now)
  IN IF intent = << >> THEN w ELSE update(spawnInsert(w, intent[1]))

RECURSIVE replayFrom(_, _, _, _, _)
replayFrom(w, r, sorted, k, now) ==
  IF k > Len(sorted) THEN w
  ELSE replayFrom(replayRecord(w, r, sorted[k], now), r, sorted, k + 1, now)

replay(w, r, records, now) == replayFrom(w, r, sortByTimestamp(records), 1, now)

\* The component and resource state of a world: per component type the
\* values in the type index, without their order, and the resources.
ValuesOf(w, t) ==
  LET q == query(w, t)
      V == {w.insts[q[k]].value : k \in 1 .. Len(q)}
  IN [v \in V |-> Cardinality({k \in 1 .. Len(q) : w.insts[q[k]].value = v})]

captureECSState(w) ==
  [components |-> [t \in CompTypes |-> ValuesOf(w, t)], resources |-> w.resources]

\* setupECS: the GameState resource and the systems of the game that act
\* on NavigateIntent, in their registration order.
setupECS(w) ==
  addGameSystem(addGameSystem(insertResource(w, "GameState", GameState),
                              "Navigation"), "IntentCleanup")

\* A setupECS that registers the NavigationSystem first.
setupNavigationFirst(w) ==
  addGameSystem(addGameSystem(addGameSystem(
    insertResource(insertResource(w, "GameState", GameState), "UserSession", UserSession),
    "Navigation"), "LoginProcess"), "IntentCleanup")

\* setupECS of the login flow: the GameState and UserSession resources and
\* the LoginProcessSystem, NavigationSystem and IntentCleanupSystem, in
\* this order.
setupLoginECS(w) ==
  addGameSystem(addGameSystem(addGameSystem(
    insertResource(insertResource(w, "GameState", GameState), "UserSession", UserSession),
    "LoginProcess"), "Navigation"), "IntentCleanup")

\* Nothing has been recorded about past calls.
NoHistory ==
  /\ despawned = << >>
  /\ thrownBy = 0

\* No recording is under way.
NoSession == [made |-> << >>]

\* Every call starts with an empty call trace.
Fresh(w) == [w EXCEPT !.calls = << >>, !.notified = << >>]

\* The cache that the executing system's update iterates.
IterOf(w, s) == w.systems[s].iter

\* A Set iterator keeps its place when entries before it are deleted: the
\* number of passed slots shrinks by the passed entries that are gone.
KeepPlace(old, new, pos) ==
  Cardinality({k \in 1 .. pos : old[k] \in Range(new)})

\* A World call that is not a step of update(): w2 is the world after it.
CallWorld(w2) ==
  /\ ecs' = w2
  /\ runPos' = IF pc = "run" /\ runSys > 0
               THEN KeepPlace(ecs.cache[IterOf(ecs, runSys)],
                              w2.cache[IterOf(ecs, runSys)], runPos)
               ELSE runPos
  /\ UNCHANGED <<pc, runSys, visited, atStart, pushed, session>>

Call(w2) ==
  /\ CallWorld(w2)
  /\ UNCHANGED history

Init ==
  /\ ecs = NewWorld
  /\ pc = "idle"
  /\ runSys = 0
  /\ runPos = 0
  /\ visited = << >>
  /\ atStart = << >>
  /\ pushed = << >>
  /\ triggered = NoTrigger
  /\ session = NoSession
  /\ NoHistory

CreateEntity(maxEntities) ==
  /\ ecs.nextEntityID < maxEntities
  /\ Call(createEntity(Fresh(ecs)))
  /\ triggered' = NoTrigger

\* entity.add(new T()) for a data component type.
AddNew(e, t, maxInst) ==
  /\ Len(ecs.insts) < maxInst
  /\ Call(addComponent(newInst(Fresh(ecs), t, 0), e, Len(ecs.insts) + 1))
  /\ triggered' = NoTrigger

\* entity.add(c) for a component object c that already exists.
AddExisting(e, i) ==
  /\ ecs.insts[i].type \in DataTypes
  /\ Call(addComponent(Fresh(ecs), e, i))
  /\ triggered' = NoTrigger

RemoveComponent(e, t) ==
  /\ Call(removeComponent(Fresh(ecs), e, t))
  /\ triggered' = NoTrigger

RemoveEntity(e, maxQueue) ==
  /\ Len(ecs.entitiesToDestroy) < maxQueue
  /\ Call(removeEntity(Fresh(ecs), e))
  /\ triggered' = NoTrigger

Reqs == {<<"A">>, <<"B">>, <<"A", "B">>}

AddSystem(req, isGlobal, maxSystems) ==
  /\ Len(ecs.systems) < maxSystems
  /\ Call(addSystem(Fresh(ecs), "Update", req, isGlobal))
  /\ triggered' = NoTrigger

AddSystemFn(req) ==
  /\ Len(ecs.systems) + 2 <= MaxSystems
  /\ Call(addSystemFn(Fresh(ecs), "Update", req))
  /\ triggered' = NoTrigger

\* q.with(t) on a Query that is already registered.
QueryWith(s, t) ==
  /\ ecs.systems[s].stage = "None"
  /\ Call(queryWith(Fresh(ecs), s, t))
  /\ triggered' = NoTrigger

SetParent(child, parent, maxInst) ==
  /\ Len(ecs.insts) + 2 <= maxInst
  /\ Call(setParent(Fresh(ecs), child, parent))
  /\ triggered' = NoTrigger

RemoveParent(e) ==
  /\ Call(removeParent(Fresh(ecs), e))
  /\ triggered' = NoTrigger

DespawnRecursive(e) ==
  /\ Terminates(ecs, e)
  /\ Len(ecs.entitiesToDestroy) + Cardinality(Descendants(ecs, e)) < MaxQueue
  /\ LET w2 == despawnRecursive(Fresh(ecs), e)
         n  == Len(ecs.entitiesToDestroy)
     IN /\ CallWorld(w2)
        /\ despawned' = Append(despawned,
             [root |-> e,
              handled |-> Range(SubSeq(w2.entitiesToDestroy, n + 1,
                                       Len(w2.entitiesToDestroy)))])
        /\ UNCHANGED thrownBy
  /\ triggered' = NoTrigger

PushEvent(t) ==
  /\ ecs.nextEvent <= MaxEvents
  /\ ecs' = pushEvent(Fresh(ecs), t)
  /\ pushed' = Append(pushed, [type |-> t, swaps |-> 0])
  /\ triggered' = NoTrigger
  /\ UNCHANGED <<pc, runSys, runPos, visited, atStart, session, history>>

\* The number of observer registrations made so far.
RECURSIVE Total(_, _)
Total(f, D) ==
  IF D = {} THEN 0
  ELSE LET x == CHOOSE y \in D : TRUE IN Len(f[x]) + Total(f, D \ {x})

RECURSIVE RegisteredOn(_, _)
RegisteredOn(w, e) ==
  IF e >= w.nextEntityID THEN 0
  ELSE Total(w.entityObservers[e], AllEvTypes) + RegisteredOn(w, e + 1)

Registered(w) == Total(w.globalObservers, AllEvTypes) + RegisteredOn(w, 0)

AddObserver(t, cb) ==
  /\ Registered(ecs) < MaxObservers
  /\ Call(addObserver(Fresh(ecs), t, cb))
  /\ triggered' = NoTrigger

AddEntityObserver(e, t, cb) ==
  /\ Registered(ecs) < MaxObservers
  /\ Call(addEntityObserver(Fresh(ecs), e, t, cb))
  /\ triggered' = NoTrigger

\* ecs.trigger(new T(), target); target = NoEnt when it is omitted.
Trigger(t, target) ==
  /\ Call(trigger(Fresh(ecs), t, target))
  /\ triggered' = [ev |-> t, target |-> target]

\* update(): the swap of the event buffers, then runStage(Stage.Update).
UpdateBegin ==
  /\ pc = "idle"
  /\ ecs' = swapEvents(Fresh(ecs))
  /\ pc' = "run"
  /\ runSys' = 0
  /\ runPos' = 0
  /\ visited' = << >>
  /\ atStart' = << >>
  /\ pushed' = [k \in DOMAIN pushed |->
                  [pushed[k] EXCEPT !.swaps = IF @ < 2 THEN @ + 1 ELSE @]]
  /\ triggered' = NoTrigger
  /\ thrownBy' = 0
  /\ UNCHANGED <<session, despawned>>

\* The executing system's iterator has passed every slot of its cache.
Exhausted ==
  IF runSys = 0 THEN TRUE
  ELSE runPos >= Len(ecs.cache[IterOf(ecs, runSys)])

\* The systems of Stage.Update not yet run in this update(), in
\* registration order (systemsByStage is an insertion-ordered Set).
Later == {s \in (runSys + 1) .. Len(ecs.systems) : ecs.systems[s].stage = "Update"}

\* runStage calls the next system's update() with its lazy iterator.
StartSystem ==
  /\ pc = "run"
  /\ Exhausted
  /\ Later # {}
  /\ LET s == CHOOSE x \in Later : \A y \in Later : x <= y
     IN /\ runSys' = s
        /\ atStart' = ecs.cache[IterOf(ecs, s)]
  /\ runPos' = 0
  /\ visited' = << >>
  /\ triggered' = NoTrigger
  /\ UNCHANGED <<ecs, pc, pushed, session, history>>

\* The iterator yields the next entity of the live cache to the body.
Visit ==
  /\ pc = "run"
  /\ runSys > 0
  /\ ~Exhausted
  /\ visited' = Append(visited, ecs.cache[IterOf(ecs, runSys)][runPos + 1])
  /\ runPos' = runPos + 1
  /\ triggered' = NoTrigger
  /\ UNCHANGED <<ecs, pc, runSys, atStart, pushed, session, history>>

\* The last system has returned: the destruction flush, and update() returns.
UpdateEnd ==
  /\ pc = "run"
  /\ Exhausted
  /\ Later = {}
  /\ ecs' = flush(ecs)
  /\ pc' = "idle"
  /\ runSys' = 0
  /\ runPos' = 0
  /\ visited' = << >>
  /\ atStart' = << >>
  /\ triggered' = NoTrigger
  /\ despawned' = << >>
  /\ UNCHANGED thrownBy
  /\ UNCHANGED <<pushed, session>>

----------------------------------------------------------------------------
\* Recording a live run and replaying it.

\* Two identically set up worlds, and a recorder with the intent types
\* registered.  made holds the intent objects constructed and not yet
\* applied; now is Date.now().
InitReplay ==
  /\ ecs = setupECS(NewWorld)
  /\ pc = "idle"
  /\ runSys = 0
  /\ runPos = 0
  /\ visited = << >>
  /\ atStart = << >>
  /\ pushed = << >>
  /\ triggered = NoTrigger
  /\ session = [made |-> << >>, now |-> 1, count |-> 0, applied |-> << >>,
                recorder |-> registerIntentType(NewRecorder, "NavigateIntent"),
                w2 |-> setupECS(NewWorld), done |-> FALSE]
  /\ NoHistory

ReplayStep(s2) ==
  /\ session' = s2
  /\ UNCHANGED <<pc, runSys, runPos, visited, atStart, pushed, triggered, history>>

StartRecording ==
  /\ ~session.recorder.isRecording
  /\ ~session.done
  /\ ReplayStep([session EXCEPT !.recorder = startRecording(@)])
  /\ UNCHANGED ecs

\* new NavigateIntent(view); the clock may have advanced since the last one.
MakeIntent(view, dt) ==
  /\ session.count < MaxIntents
  /\ ~session.done
  /\ ReplayStep([session EXCEPT
       !.now = @ + dt,
       !.count = @ + 1,
       !.made = Append(@, NewIntent("NavigateIntent", view, session.now + dt))])
  /\ UNCHANGED ecs

\* One of the intents made is applied live: spawn().insert(intent) and
\* update(), and recorder.record(intent) before or after it.
LiveApply(k, after) ==
  /\ session.recorder.isRecording
  /\ k \in 1 .. Len(session.made)
  /\ LET intent == session.made[k]
         w1     == update(spawnInsert(Fresh(ecs), intent))
         obj    == IF after THEN IntentObject(w1, Len(w1.insts)) ELSE intent
     IN /\ ecs' = w1
        /\ ReplayStep([session EXCEPT
             !.made = SubSeq(@, 1, k - 1) \o SubSeq(@, k + 1, Len(@)),
             !.applied = Append(@, intent.fields.timestamp),
             !.recorder = record(@, obj)])

\* stopRecording, and replay of the session against the second world.
StopAndReplay ==
  /\ session.recorder.isRecording
  /\ session.made = << >>
  /\ ReplayStep([session EXCEPT
       !.recorder = stopRecording(@),
       !.w2 = replay(@, session.recorder, session.recorder.records, session.now),
       !.done = TRUE])
  /\ UNCHANGED ecs

\* The destruction loop of update(), one pop and destroyEntity per step.
Flushing == pc = "flush" \/ (pc = "run" /\ Exhausted /\ Later = {})

FlushStep ==
  /\ Flushing
  /\ ecs.entitiesToDestroy # << >>
  /\ LET n == Len(ecs.entitiesToDestroy)
     IN ecs' = destroyEntity([ecs EXCEPT !.entitiesToDestroy = SubSeq(@, 1, n - 1)],
                             ecs.entitiesToDestroy[n])
  /\ pc' = "flush"
  /\ triggered' = NoTrigger
  /\ UNCHANGED <<runSys, runPos, visited, atStart, pushed, session, history>>

\* The queue is empty: update() returns.
FlushEnd ==
  /\ Flushing
  /\ ecs.entitiesToDestroy = << >>
  /\ pc' = "idle"
  /\ runSys' = 0
  /\ runPos' = 0
  /\ visited' = << >>
  /\ atStart' = << >>
  /\ triggered' = NoTrigger
  /\ despawned' = << >>
  /\ UNCHANGED thrownBy
  /\ UNCHANGED <<ecs, pushed, session>>

----------------------------------------------------------------------------
\* The application: its resources and systems, and a running game.

\* GameWorld.initialize: the resources, then the systems that act on
\* intents, in their registration order.
setupApp(w) ==
  LET w1 == insertResource(insertResource(insertResource(w,
              "GameState", GameState), "UserSession", UserSession),
              "SnakeGameResource", SnakeGameResource)
  IN addGameSystem(addGameSystem(addGameSystem(addGameSystem(w1,
       "LoginProcess"), "Navigation"), "SnakeMovement"), "IntentCleanup")

\* SnakeGameInitSystem.createNewGame and startGame: the game entity with
\* its tag and its snake, and the game running.
createNewGame(w) ==
  LET e  == w.nextEntityID
      w1 == newInst(createEntity(w), "SnakeGameActive", [tag |-> TRUE])
      w2 == addComponent(w1, e, Len(w1.insts))
      w3 == newInst(w2, "Snake", Snake)
  IN startGame(addComponent(w3, e, Len(w3.insts)))

InitApp ==
  /\ ecs = createNewGame(setupApp(NewWorld))
  /\ pc = "idle"
  /\ runSys = 0
  /\ runPos = 0
  /\ visited = << >>
  /\ atStart = << >>
  /\ pushed = << >>
  /\ triggered = NoTrigger
  /\ session = [frameCount |-> 0, spawned |-> 0]
  /\ NoHistory

\* The user interface spawns an intent: ecs.spawn().insert(intent).
SpawnIntent(intent) ==
  /\ session.spawned < MaxAppIntents
  /\ ecs' = spawnInsert(Fresh(ecs), intent)
  /\ session' = [session EXCEPT !.spawned = @ + 1]
  /\ triggered' = NoTrigger
  /\ UNCHANGED <<pc, runSys, runPos, visited, atStart, pushed, history>>

\* Time passes: the snake's next move becomes due.
TimePasses ==
  /\ ~getResource(ecs, "SnakeGameResource").moveDue
  /\ Call([ecs EXCEPT !.resources["SnakeGameResource"].moveDue = TRUE])
  /\ triggered' = NoTrigger

\* TickSystem.tick counts the frame (here modulo 2) and requests the next.
nextFrame == session' = [session EXCEPT !.frameCount = (@ + 1) % 2]

\* TickSystem.tick: the frame's update().
tick ==
  /\ ecs' = update(Fresh(ecs))
  /\ nextFrame
  /\ triggered' = NoTrigger
  /\ UNCHANGED <<pc, runSys, runPos, visited, atStart, pushed, history>>

NextApp ==
  \/ \E u \in Usernames : SpawnIntent(NewLoginIntent(u, 0))
  \/ \E v \in Views : SpawnIntent(NewIntent("NavigateIntent", v, 0))
  \/ \E d \in Directions : SpawnIntent(NewSnakeDirectionIntent(0, d, 0))
  \/ TimePasses
  \/ tick

\* Each tick requests the next animation frame: frames keep coming.
SpecApp == InitApp /\ [][NextApp]_vars /\ WF_session(nextFrame)

\* The notifications of addComponent and removeComponent.

NoteTypes == {"A", "LifecycleTestComponent"}

\* The callbacks and observers registered so far.
NoteCallbacks(w) ==
  Registered(w) + Total(w.initializeSystems, CompTypes) + Total(w.destroySystems, CompTypes)

AddInitializeSystem(t, cb) ==
  /\ NoteCallbacks(ecs) < MaxNoteCallbacks
  /\ Call(addInitializeSystem(Fresh(ecs), t, cb))
  /\ triggered' = NoTrigger

AddDestroySystem(t, cb) ==
  /\ NoteCallbacks(ecs) < MaxNoteCallbacks
  /\ Call(addDestroySystem(Fresh(ecs), t, cb))
  /\ triggered' = NoTrigger

\* addObserver / addEntityObserver for the lifecycle events.
Observe(t, e, cb) ==
  /\ NoteCallbacks(ecs) < MaxNoteCallbacks
  /\ Call(IF e = NoEnt THEN addObserver(Fresh(ecs), t, cb)
          ELSE addEntityObserver(Fresh(ecs), e, t, cb))
  /\ triggered' = NoTrigger

NextNotify ==
  \/ CreateEntity(MaxNoteEntities)
  \/ \E e \in Created(ecs), t \in NoteTypes : AddNew(e, t, MaxNoteInst)
  \/ \E e \in Created(ecs), t \in NoteTypes : RemoveComponent(e, t)
  \/ \E t \in NoteTypes : AddSystem(<<t>>, FALSE, MaxNoteSystems)
  \/ \E t \in NoteTypes : AddInitializeSystem(t, "f")
  \/ \E t \in NoteTypes : AddDestroySystem(t, "g")
  \/ \E t \in {"OnAdd", "OnRemove"}, e \in Created(ecs) \cup {NoEnt} : Observe(t, e, "f")

SpecNotify == Init /\ [][NextNotify]_vars

\* Destruction of entities that carry components whose removal is watched
\* by destroy callbacks, the static onRemove hook and OnRemove observers.
NextGone ==
  \/ CreateEntity(MaxGoneEntities)
  \/ \E e \in Created(ecs), t \in NoteTypes : AddNew(e, t, MaxGoneInst)
  \/ \E e \in Created(ecs), t \in NoteTypes : RemoveComponent(e, t)
  \/ \E t \in NoteTypes : AddDestroySystem(t, "g")
  \/ \E e \in Created(ecs) \cup {NoEnt} : Observe("OnRemove", e, "f")
  \/ \E e \in Created(ecs) : RemoveEntity(e, MaxGoneQueue)
  \/ UpdateBegin
  \/ UpdateEnd

SpecGone == Init /\ [][NextGone]_vars

\* A system's update() throws.

\* A runStage that catches what a system throws and goes on with the
\* next system.
ThrowCaught ==
  /\ pc = "run"
  /\ runSys > 0
  /\ thrownBy' = runSys
  /\ runPos' = Len(ecs.cache[IterOf(ecs, runSys)])
  /\ triggered' = NoTrigger
  /\ UNCHANGED <<ecs, pc, runSys, visited, atStart, pushed, session, despawned>>

\* The executing system's update() throws: neither runStage nor update()
\* catches, so update() is left at once, with the World as it is.
Throw ==
  /\ pc = "run"
  /\ runSys > 0
  /\ thrownBy' = runSys
  /\ pc' = "idle"
  /\ runSys' = 0
  /\ runPos' = 0
  /\ visited' = << >>
  /\ atStart' = << >>
  /\ triggered' = NoTrigger
  /\ UNCHANGED <<ecs, pushed, session, despawned>>

\* Two systems that require A, registered in this order.
InitThrow ==
  /\ ecs = addSystem(addSystem(NewWorld, "Update", <<"A">>, FALSE),
                     "Update", <<"A">>, FALSE)
  /\ pc = "idle"
  /\ runSys = 0
  /\ runPos = 0
  /\ visited = << >>
  /\ atStart = << >>
  /\ pushed = << >>
  /\ triggered = NoTrigger
  /\ session = NoSession
  /\ NoHistory

NextThrow ==
  \/ CreateEntity(MaxThrowEntities)
  \/ \E e \in Created(ecs) : AddNew(e, "A", MaxThrowInst)
  \/ \E e \in Created(ecs) : RemoveEntity(e, MaxThrowQueue)
  \/ UpdateBegin
  \/ StartSystem
  \/ Visit
  \/ Throw
  \/ UpdateEnd

SpecThrow == InitThrow /\ [][NextThrow]_vars

\* Whole update() calls that complete or are aborted by a throwing system.
\* session remembers the last update(): op is how it ended, held the
\* entities that were queued when an update() was aborted and no update()
\* has completed since, was the entities destroyed at the first such
\* abort, flushed the entities held when the last update() completed.
InitAbort ==
  /\ ecs = addSystem(addSystem(NewWorld, "Update", <<"A">>, FALSE),
                     "Update", <<"A">>, FALSE)
  /\ pc = "idle"
  /\ runSys = 0
  /\ runPos = 0
  /\ visited = << >>
  /\ atStart = << >>
  /\ pushed = << >>
  /\ triggered = NoTrigger
  /\ session = [op |-> "none", aborts |-> 0, held |-> {}, was |-> {}, flushed |-> {}]
  /\ NoHistory

AbortedUpdate(thrower) ==
  /\ session.aborts < MaxAborts
  /\ ReplayStep([session EXCEPT !.op = "abort",
                                 !.aborts = @ + 1,
                                 !.held = @ \cup Range(ecs.entitiesToDestroy),
                                 !.was = IF session.aborts = 0 THEN ecs.destroyed ELSE @])
  /\ ecs' = updateThrowing(Fresh(ecs), thrower)

CompletedUpdate ==
  /\ ReplayStep([session EXCEPT !.op = "update", !.aborts = 0, !.held = {},
                                 !.flushed = session.held])
  /\ ecs' = update(Fresh(ecs))

NextAbort ==
  \/ CreateEntity(MaxThrowEntities)
  \/ \E e \in Created(ecs) : AddNew(e, "A", MaxThrowInst)
  \/ \E e \in Created(ecs) : RemoveEntity(e, MaxThrowQueue)
  \/ \E thrower \in 1 .. Len(ecs.systems) : AbortedUpdate(thrower)
  \/ CompletedUpdate

SpecAbort == InitAbort /\ [][NextAbort]_vars

\* The three stages.

\* A world whose NavigationSystem runs in Stage.Startup and whose
\* IntentCleanupSystem runs in Stage.FixedUpdate.
InitStages ==
  /\ ecs = addGameSystemAt(addGameSystemAt(insertResource(NewWorld, "GameState", GameState),
                                           "Startup", "Navigation"),
                           "FixedUpdate", "IntentCleanup")
  /\ pc = "idle"
  /\ runSys = 0
  /\ runPos = 0
  /\ visited = << >>
  /\ atStart = << >>
  /\ pushed = << >>
  /\ triggered = NoTrigger
  /\ session = [call |-> "new"]
  /\ NoHistory

\* A call of the named method of the World; w2 is the world after it.
StageCall(name, w2) ==
  /\ ecs' = w2
  /\ session' = [call |-> name]
  /\ triggered' = NoTrigger
  /\ UNCHANGED <<pc, runSys, runPos, visited, atStart, pushed, history>>

NextStages ==
  \/ \E v \in Views :
       /\ ecs.nextEntityID < MaxStageIntents
       /\ StageCall("spawn", spawnInsert(Fresh(ecs), NewIntent("NavigateIntent", v, 0)))
  \/ \E e \in Created(ecs) :
       /\ Len(ecs.entitiesToDestroy) < MaxStageQueue
       /\ StageCall("removeEntity", removeEntity(Fresh(ecs), e))
  \/ StageCall("startup", startup(Fresh(ecs)))
  \/ /\ Len(fixedUpdate(ecs).entitiesToDestroy) <= MaxStageQueue
     /\ StageCall("fixedUpdate", fixedUpdate(Fresh(ecs)))
  \/ StageCall("update", update(Fresh(ecs)))

SpecStages == InitStages /\ [][NextStages]_vars

\* Replay, record by record.

\* The record that IntentRecorder.record makes of an intent.
RecordOf(intent) == record(startRecording(NewRecorder), intent).records[1]

\* The records a session of the application can hold: of navigation,
\* direction and login intents, made at some time with some priority.
SessionRecords ==
  {RecordOf([i EXCEPT !.fields.priority = p]) :
     i \in {NewIntent("NavigateIntent", v, t) : v \in {"login", "game"}, t \in Times}
           \cup {NewSnakeDirectionIntent(0, "Up", t) : t \in Times}
           \cup {NewLoginIntent(<<"alice">>, t) : t \in Times},
     p \in Priorities}

\* The recorders: every intent type registered, or all but LoginIntent.
Recorders ==
  {registerIntentType(registerIntentType(NewRecorder, "NavigateIntent"),
                      "SnakeDirectionIntent"),
   registerIntentType(registerIntentType(registerIntentType(NewRecorder,
     "NavigateIntent"), "SnakeDirectionIntent"), "LoginIntent")}

\* replay(ecs, session) is about to be called on the application's world
\* before any game was started.  Each record is tagged with its position
\* in session.records; k is the loop's position in sortedRecords, 0 before
\* the call; updates counts the update() calls made by the loop, applied
\* lists the records reconstructed, replayed their intent objects.
InitSteps ==
  /\ ecs = setupApp(NewWorld)
  /\ pc = "idle"
  /\ runSys = 0
  /\ runPos = 0
  /\ visited = << >>
  /\ atStart = << >>
  /\ pushed = << >>
  /\ triggered = NoTrigger
  /\ \E n \in 0 .. MaxRecords, r \in Recorders :
       \E f \in [1 .. n -> SessionRecords] :
         session = [records |-> [k \in 1 .. n |->
                                   [type |-> f[k].type, data |-> f[k].data,
                                    timestamp |-> f[k].timestamp,
                                    priority |-> f[k].priority, recorded |-> k]],
                    recorder |-> r, sorted |-> << >>, k |-> 0, updates |-> 0,
                    applied |-> << >>, replayed |-> << >>, now |-> 3]
  /\ NoHistory

\* IntentRecorder.replay up to its loop: the records are sorted.
ReplayBegin ==
  /\ session.k = 0
  /\ ReplayStep([session EXCEPT !.sorted = sortByTimestamp(session.records), !.k = 1])
  /\ UNCHANGED ecs

\* One iteration of the loop of replay.
ReplayRecord ==
  /\ session.k \in 1 .. Len(session.sorted)
  /\ LET rcd == session.sorted[session.k]
     IN /\ ecs' = replayRecord(Fresh(ecs), session.recorder, rcd, session.now)
        /\ ReplayStep(
             IF deserializeIntent(session.recorder, rcd, session.now) = << >>
             THEN [session EXCEPT !.k = @ + 1]
             ELSE [session EXCEPT !.k = @ + 1,
                                  !.updates = @ + 1,
                                  !.applied = Append(@, rcd.recorded),
                                  !.replayed = Append(@, Len(ecs.insts) + 1)])

NextSteps == ReplayBegin \/ ReplayRecord

SpecSteps == InitSteps /\ [][NextSteps]_vars

\* The calls made on one IntentRecorder.  log lists the calls made so
\* far, returned the sessions that the stopRecording calls returned.
InitRecord ==
  /\ ecs = NewWorld
  /\ pc = "idle"
  /\ runSys = 0
  /\ runPos = 0
  /\ visited = << >>
  /\ atStart = << >>
  /\ pushed = << >>
  /\ triggered = NoTrigger
  /\ session = [recorder |-> NewRecorder, log |-> << >>, returned |-> << >>]
  /\ NoHistory

RecorderCall(call, r2, out) ==
  /\ Len(session.log) < MaxRecCalls
  /\ ReplayStep([session EXCEPT !.recorder = r2,
                                !.log = Append(@, call),
                                !.returned = @ \o out])
  /\ UNCHANGED ecs

CallStartRecording ==
  RecorderCall([op |-> "startRecording"], startRecording(session.recorder), << >>)

CallRecord(intent) ==
  RecorderCall([op |-> "record", intent |-> intent],
               record(session.recorder, intent), << >>)

CallStopRecording ==
  RecorderCall([op |-> "stopRecording"], stopRecording(session.recorder),
               <<ReplaySession(stopRecording(session.recorder))>>)

NextRecord ==
  \/ CallStartRecording
  \/ \E v \in {"login", "game"}, t \in Times :
       CallRecord(NewIntent("NavigateIntent", v, t))
  \/ CallStopRecording

SpecRecord == InitRecord /\ [][NextRecord]_vars

\* A class-style system with componentsRequired req and a function-style
\* system with query(req) are registered at the same point of the
\* program, in either order.
AddBothStyles(req, fnFirst) ==
  /\ Len(ecs.systems) + 3 <= MaxStyleSystems
  /\ Call(IF fnFirst
          THEN addSystem(addSystemFn(Fresh(ecs), "Update", req), "Update", req, FALSE)
          ELSE addSystemFn(addSystem(Fresh(ecs), "Update", req, FALSE), "Update", req))
  /\ triggered' = NoTrigger

\* e.destroy() and the update() that carries it out, as one step: the
\* bodies of the two systems only read what they are handed.
RemoveAndUpdate(e) ==
  /\ Call(update(removeEntity(Fresh(ecs), e)))
  /\ triggered' = NoTrigger

\* Structural changes before and between the runs of a class-style and a
\* function-style system over the same component types.
NextStyles ==
  \/ CreateEntity(MaxStyleEntities)
  \/ \E e \in Created(ecs), t \in DataTypes : AddNew(e, t, MaxStyleInst)
  \/ \E e \in Created(ecs), t \in DataTypes : RemoveComponent(e, t)
  \/ \E e \in Created(ecs) : RemoveAndUpdate(e)
  \/ \E req \in Reqs, fnFirst \in BOOLEAN : AddBothStyles(req, fnFirst)

SpecStyles == Init /\ [][NextStyles]_vars

\* despawnRecursive(e) on any hierarchy that setParent can build, with
\* room for MaxStack frames, after the update() that followed the call
\* before.  despawned holds the latest call: subtree is e and the entities
\* reachable from it through Children links when the call is made, thrown
\* whether the call threw instead of returning.
Despawn(e) ==
  /\ \A k \in 1 .. Len(despawned) : despawned[k].updated
  /\ LET r == despawnWithin(Fresh(ecs), e, MaxStack)
     IN /\ Len(r.world.entitiesToDestroy) <= MaxSubQueue
        /\ CallWorld(r.world)
        /\ despawned' = <<[root |-> e,
                           subtree |-> {e} \cup Descendants(ecs, e),
                           thrown |-> r.thrown,
                           updated |-> FALSE,
                           before |-> {}]>>
        /\ UNCHANGED thrownBy
  /\ triggered' = NoTrigger

\* update() as one call.  A call of despawned not followed by an update()
\* yet now is, and before keeps the entities that were destroyed when this
\* update() began.
UpdateAfter ==
  /\ CallWorld(update(Fresh(ecs)))
  /\ despawned' = [k \in 1 .. Len(despawned) |->
                     IF despawned[k].updated THEN despawned[k]
                     ELSE [despawned[k] EXCEPT !.updated = TRUE,
                                               !.before = ecs.destroyed]]
  /\ UNCHANGED thrownBy
  /\ triggered' = NoTrigger

NextSubtree ==
  \/ CreateEntity(MaxSubEntities)
  \/ \E c \in Created(ecs), p \in Created(ecs) : SetParent(c, p, MaxSubInst)
  \/ \E e \in Created(ecs) : Despawn(e)
  \/ UpdateAfter

SpecSubtree == Init /\ [][NextSubtree]_vars

\* The login flow.  The strings that a user can type: up to MaxNameLen
\* pieces.
Pieces == Whitespace \cup {"bob"}

TypedTexts == UNION {[1 .. n -> Pieces] : n \in 0 .. MaxNameLen}

\* session.text is the string that the user types into the login form.
\* session remembers the last call: its name, the string it was given,
\* what it returned and the world before it; typed lists the strings
\* given for the LoginIntents spawned since the last update, and handled
\* those of the LoginIntents that the last update found.
InitLogin ==
  /\ ecs = setupLoginECS(NewWorld)
  /\ pc = "idle"
  /\ runSys = 0
  /\ runPos = 0
  /\ visited = << >>
  /\ atStart = << >>
  /\ pushed = << >>
  /\ triggered = NoTrigger
  /\ session \in {[text |-> text, op |-> "none", input |-> << >>, result |-> FALSE,
                   before |-> setupLoginECS(NewWorld), spawned |-> 0,
                   typed |-> << >>, handled |-> << >>] : text \in TypedTexts}
  /\ NoHistory

LoginStep(s2, w2) ==
  /\ ReplayStep([s2 EXCEPT !.before = ecs])
  /\ ecs' = w2

\* The login form calls UserUtil.requestLogin with what the user typed.
RequestLogin ==
  LET username == session.text
      r == requestLogin(Fresh(ecs), username, 1)
  IN /\ session.spawned < MaxLoginIntents
     /\ LoginStep([session EXCEPT !.op = "request", !.input = username,
                                  !.result = r.result,
                                  !.spawned = IF r.result THEN @ + 1 ELSE @,
                                  !.typed = IF r.result THEN Append(@, username)
                                            ELSE @],
                  r.world)

\* ecs.spawn().insert(new LoginIntent(username)), as the tests do.
SpawnLoginIntent(username) ==
  /\ session.spawned < MaxLoginIntents
  /\ LoginStep([session EXCEPT !.op = "spawn", !.input = username,
                               !.spawned = @ + 1,
                               !.typed = Append(@, username)],
               spawnInsert(Fresh(ecs), NewLoginIntent(username, 1)))

\* ecs.spawn().insert(new NavigateIntent(view))
SpawnNavigateIntent(view) ==
  /\ session.spawned < MaxLoginIntents
  /\ LoginStep([session EXCEPT !.op = "spawn", !.input = << >>,
                               !.spawned = @ + 1],
               spawnInsert(Fresh(ecs), NewIntent("NavigateIntent", view, 1)))

\* ecs.update()
UpdateLogin ==
  /\ session.op # "update"
  /\ LoginStep([session EXCEPT !.op = "update", !.input = << >>,
                               !.typed = << >>, !.handled = session.typed],
               update(Fresh(ecs)))

NextLogin ==
  \/ RequestLogin
  \/ \E username \in Usernames : SpawnLoginIntent(username)
  \/ \E view \in Views : SpawnNavigateIntent(view)
  \/ UpdateLogin

SpecLogin == InitLogin /\ [][NextLogin]_vars

\* The frame loop.  session is the TickSystem (isRunning, animationFrameId
\* with 0 for null, frameCount) and the browser: pending holds the ids of
\* the requestAnimationFrame callbacks not yet run or cancelled, nextId is
\* the next id.  depth counts the calls of tick that are inside
\* gameWorld.update(); last, thrower, logged and threw describe the
\* update() that returned last, errors counts the updates in which a
\* system threw.
InitTick ==
  /\ ecs = createNewGame(setupApp(NewWorld))
  /\ pc = "idle"
  /\ runSys = 0
  /\ runPos = 0
  /\ visited = << >>
  /\ atStart = << >>
  /\ pushed = << >>
  /\ triggered = NoTrigger
  /\ session = [isRunning |-> FALSE, animationFrameId |-> 0, frameCount |-> 0,
                pending |-> {}, nextId |-> 1, depth |-> 0, spawned |-> 0,
                last |-> "none", thrower |-> 0, logged |-> FALSE, threw |-> FALSE,
                errors |-> 0]
  /\ NoHistory

TickStep(s2, w2) ==
  /\ ReplayStep(s2)
  /\ ecs' = w2

\* TickSystem.start, from outside or from inside a frame's update: it
\* returns at once when the loop runs, else it calls tick(), which enters
\* gameWorld.update().
TickStart ==
  /\ session.nextId + session.depth <= MaxFrames
  /\ session.depth < MaxTickDepth
  /\ ~session.isRunning
  /\ TickStep([session EXCEPT !.isRunning = TRUE, !.frameCount = 0,
                              !.depth = @ + 1, !.last = "start"], ecs)

\* TickSystem.stop, from outside or from inside a frame's update.
TickStop ==
  /\ session.isRunning
  /\ TickStep([session EXCEPT !.isRunning = FALSE,
                              !.pending = @ \ {session.animationFrameId},
                              !.animationFrameId = 0,
                              !.last = "stop"], ecs)

\* The browser runs a pending frame callback: tick returns at once when
\* the loop is stopped, else it enters gameWorld.update().
FrameFires(id) ==
  /\ session.depth = 0
  /\ session.nextId <= MaxFrames
  /\ id \in session.pending
  /\ TickStep([session EXCEPT !.pending = @ \ {id},
                              !.depth = IF session.isRunning THEN 1 ELSE 0,
                              !.last = "frame"], ecs)

\* gameWorld.update() of the innermost tick returns, after system thrower
\* threw or after no system did; tick counts the frame and requests the
\* next one.
TickUpdate(thrower) ==
  LET r == gameWorldUpdate(Fresh(ecs), thrower)
  IN /\ session.depth > 0
     /\ TickStep([session EXCEPT !.depth = @ - 1,
                                 !.frameCount = @ + 1,
                                 !.animationFrameId = session.nextId,
                                 !.pending = @ \cup {session.nextId},
                                 !.nextId = @ + 1,
                                 !.last = "update", !.thrower = thrower,
                                 !.logged = r.logged, !.threw = r.threw,
                                 !.errors = IF thrower # 0 THEN @ + 1 ELSE @],
                 r.world)

\* The user interface spawns a NavigateIntent between two frames.
TickSpawn(view) ==
  /\ session.depth = 0
  /\ session.spawned < MaxTickIntents
  /\ TickStep([session EXCEPT !.spawned = @ + 1, !.last = "spawn"],
              spawnInsert(Fresh(ecs), NewIntent("NavigateIntent", view, 0)))

NextTick ==
  \/ TickStart
  \/ TickStop
  \/ \E id \in 1 .. MaxFrames : FrameFires(id)
  \/ \E thrower \in 0 .. Len(ecs.systems) : TickUpdate(thrower)
  \/ \E view \in Views : TickSpawn(view)

SpecTick == InitTick /\ [][NextTick]_vars

\* Login, and the start of a new GameWorld over the same localStorage.
\* localStorage is a map from the keys to the stored texts.
USER_SESSION_KEY == "user_session"
StorageManagerKey == "clean_game_user_session"
StorageKeys == {USER_SESSION_KEY, StorageManagerKey}

\* UserUtil.saveUserToStorage(username) when Date.now() is now and
\* localStorage is available.
saveUserToStorage(ls, username, now) ==
  [ls EXCEPT ![USER_SESSION_KEY] =
     [form |-> "object",
      entries |-> <<[key |-> "username", type |-> "string", text |-> username],
                    [key |-> "timestamp", type |-> "number", text |-> NumText(now)]>>]]

\* The StorageManager over localStorage ls, which is available.
ManagerOver(ls) == NewStorage(ls[StorageManagerKey], "ok")

\* GameWorld.saveState
saveState(ls, w) ==
  [ls EXCEPT ![StorageManagerKey] = saveUserSession(ManagerOver(ls), w).st.localStorage]

\* GameWorld.restoreState: localStorage and the world after the call.
restoreState(ls, w) ==
  LET r == loadUserSession(ManagerOver(ls), w)
  IN [localStorage |-> [ls EXCEPT ![StorageManagerKey] = r.st.localStorage],
      world |-> r.world]

\* The names that are typed into the login form.
RestoreNames == {<<"alice">>, <<"bob">>, <<" ">>}

\* session.localStorage is the browser's localStorage; op is the last
\* step, user the name of the last successful login ("null": none),
\* logins and starts count the logins and the GameWorlds made.
InitRestore ==
  /\ ecs = restoreState([k \in StorageKeys |-> NoItem], setupApp(NewWorld)).world
  /\ pc = "idle"
  /\ runSys = 0
  /\ runPos = 0
  /\ visited = << >>
  /\ atStart = << >>
  /\ pushed = << >>
  /\ triggered = NoTrigger
  /\ session = [localStorage |-> [k \in StorageKeys |-> NoItem], op |-> "none",
                user |-> "null", logins |-> 0, starts |-> 0]
  /\ NoHistory

\* A LoginIntent for username is spawned and the update() of the next
\* frame processes it: LoginProcessSystem saves the name of a login that
\* succeeds.
ProcessLogin(username) ==
  LET valid == validateUsernameWithError(trim(username))
  IN /\ session.logins < MaxRestoreLogins
     /\ ReplayStep([session EXCEPT
                      !.op = "login",
                      !.logins = @ + 1,
                      !.user = IF valid THEN Join(trim(username)) ELSE @,
                      !.localStorage = IF valid
                                       THEN saveUserToStorage(@, Join(trim(username)), 1)
                                       ELSE @])
     /\ ecs' = update(spawnInsert(Fresh(ecs), NewLoginIntent(username, 1)))

SaveState ==
  /\ session.op # "save"
  /\ ReplayStep([session EXCEPT !.op = "save",
                                 !.localStorage = saveState(@, ecs)])
  /\ UNCHANGED ecs

\* new GameWorld().initialize() after a reload of the page.
NewGameWorld ==
  LET r == restoreState(session.localStorage, setupApp(NewWorld))
  IN /\ session.starts < MaxRestoreStarts
     /\ ReplayStep([session EXCEPT !.op = "start", !.starts = @ + 1,
                                    !.localStorage = r.localStorage])
     /\ ecs' = r.world

NextRestore ==
  \/ \E username \in RestoreNames : ProcessLogin(username)
  \/ SaveState
  \/ NewGameWorld

SpecRestore == InitRestore /\ [][NextRestore]_vars

\* Saving, loading and clearing the UserSession.  The states a UserSession
\* can hold, the texts that can lie under the session key when the
\* program starts, and the ways localStorage can behave.
SessionStates ==
  [username : {"null", "alice"}, isLoggedIn : BOOLEAN, loginTimestamp : {0, 1}]

ObjectText(entries) == [form |-> "object", entries |-> entries]

InvalidTexts ==
  {[form |-> "empty", entries |-> << >>],
   [form |-> "garbage", entries |-> << >>],
   [form |-> "null", entries |-> << >>],
   ObjectText(<< >>),
   ObjectText(<<[key |-> "username", type |-> "string", text |-> "test"]>>),
   ObjectText(<<[key |-> "isLoggedIn", type |-> "boolean", text |-> "true"]>>),
   ObjectText(<<[key |-> "username", type |-> "number", text |-> "1"],
                [key |-> "isLoggedIn", type |-> "boolean", text |-> "true"],
                [key |-> "loginTimestamp", type |-> "number", text |-> "0"]>>),
   ObjectText(<<[key |-> "username", type |-> "string", text |-> "test"],
                [key |-> "isLoggedIn", type |-> "string", text |-> "yes"],
                [key |-> "loginTimestamp", type |-> "number", text |-> "0"]>>),
   ObjectText(<<[key |-> "username", type |-> "string", text |-> "test"],
                [key |-> "isLoggedIn", type |-> "boolean", text |-> "true"],
                [key |-> "loginTimestamp", type |-> "string", text |-> "now"]>>)}

StoredTexts == InvalidTexts \cup {stringify(s) : s \in SessionStates}

StorageModes == {"ok", "full", "down"}

WorldWith(s) == insertResource(NewWorld, "UserSession", s)

\* session.store is the StorageManager; the other fields remember the last
\* call: its name, the text it read, the resources of the world it was
\* given, what it returned and whether it raised an error, and, of the
\* successful saves since the last clear, their number (saves), of the
\* last one the data (saved), whether localStorage was
\* inaccessible when it was made (inMemory) and whether localStorage has
\* behaved the same way since (steady).
InitStore ==
  /\ ecs \in {NewWorld} \cup {WorldWith(s) : s \in SessionStates}
  /\ pc = "idle"
  /\ runSys = 0
  /\ runPos = 0
  /\ visited = << >>
  /\ atStart = << >>
  /\ pushed = << >>
  /\ triggered = NoTrigger
  /\ session \in {[store |-> NewStorage(item, mode), ops |-> 0, op |-> "none",
                   read |-> NoItem, target |-> NewWorld.resources,
                   result |-> FALSE, threw |-> FALSE,
                   saved |-> << >>, saves |-> 0, inMemory |-> FALSE,
                   steady |-> FALSE] :
                    item \in StoredTexts \cup {NoItem}, mode \in StorageModes}
  /\ NoHistory

StoreStep(s2, w2) ==
  /\ session.ops < MaxStoreOps
  /\ ReplayStep([s2 EXCEPT !.ops = session.ops + 1])
  /\ ecs' = w2

\* The world that is saved is the running one or any other.
SaveSession(w) ==
  LET r == saveUserSession(session.store, w)
  IN StoreStep([session EXCEPT !.store = r.st, !.op = "save", !.read = NoItem,
                               !.target = w.resources,
                               !.result = r.result, !.threw = r.threw,
                               !.saved = IF r.result /\ ~r.threw
                                         THEN serializeUserSession(w) ELSE @,
                               !.saves = IF r.result /\ ~r.threw THEN @ + 1 ELSE @,
                               !.inMemory = IF r.result /\ ~r.threw
                                            THEN session.store.mode # "ok" ELSE @,
                               !.steady = IF r.result /\ ~r.threw THEN TRUE ELSE @],
               ecs)

\* The session is loaded into the running world or into a fresh one, which
\* has a default UserSession or none.
LoadSession(w) ==
  LET r == loadUserSession(session.store, w)
  IN StoreStep([session EXCEPT !.store = r.st, !.op = "load",
                               !.read = getItem(session.store).value,
                               !.target = w.resources,
                               !.result = r.result, !.threw = r.threw],
               r.world)

ClearSession ==
  LET r == clearUserSession(session.store)
  IN StoreStep([session EXCEPT !.store = r.st, !.op = "clear", !.read = NoItem,
                               !.target = ecs.resources,
                               !.result = r.result, !.threw = r.threw,
                               !.saved = << >>, !.saves = 0, !.inMemory = FALSE,
                               !.steady = FALSE],
               ecs)

\* localStorage starts to behave in another way.
SetMode(mode) ==
  /\ session.store.mode # mode
  /\ session.op # "mode"
  /\ StoreStep([session EXCEPT !.store.mode = mode, !.op = "mode", !.steady = FALSE],
               ecs)

NextStore ==
  \/ \E w \in {NewWorld} \cup {WorldWith(s) : s \in SessionStates} : SaveSession(w)
  \/ \E w \in {ecs, NewWorld, WorldWith(UserSession)} : LoadSession(w)
  \/ ClearSession
  \/ \E mode \in StorageModes : SetMode(mode)

SpecStore == InitStore /\ [][NextStore]_vars

\* The StorageManager with reset().
ResetStore ==
  /\ session.op # "reset"
  /\ StoreStep([session EXCEPT !.store = reset(@), !.op = "reset", !.read = NoItem,
                                !.steady = FALSE],
               ecs)

NextMode ==
  \/ NextStore
  \/ ResetStore

SpecMode == InitStore /\ [][NextMode]_vars

\* Systems and their caches: entities, data components, and the
\* registration of systems and queries.
Next ==
  \/ CreateEntity(MaxEntities)
  \/ \E e \in Created(ecs), t \in DataTypes : AddNew(e, t, MaxInst)
  \/ \E e \in Created(ecs), t \in DataTypes : RemoveComponent(e, t)
  \/ \E req \in Reqs, g \in BOOLEAN : AddSystem(req, g, MaxSystems)
  \/ \E req \in Reqs : AddSystemFn(req)
  \/ \E s \in 1 .. Len(ecs.systems), t \in DataTypes : QueryWith(s, t)

Spec == Init /\ [][Next]_vars

\* update(): the systems of Stage.Update run, their bodies acting on the
\* World between the steps of their iteration, then the destruction flush.
NextRun ==
  \/ CreateEntity(MaxRunEntities)
  \/ \E e \in Created(ecs), t \in DataTypes : AddNew(e, t, MaxRunInst)
  \/ \E e \in Created(ecs), t \in DataTypes : RemoveComponent(e, t)
  \/ \E e \in Created(ecs) : RemoveEntity(e, MaxRunQueue)
  \/ \E req \in Reqs, g \in BOOLEAN : AddSystem(req, g, MaxRunSystems)
  \/ UpdateBegin
  \/ StartSystem
  \/ Visit
  \/ UpdateEnd

SpecRun == Init /\ [][NextRun]_vars

\* Deferred destruction: a world with one system that requires A, its
\* entities queued for destruction while update() runs the system.
InitPending ==
  /\ ecs = addSystem(NewWorld, "Update", <<"A">>, FALSE)
  /\ pc = "idle"
  /\ runSys = 0
  /\ runPos = 0
  /\ visited = << >>
  /\ atStart = << >>
  /\ pushed = << >>
  /\ triggered = NoTrigger
  /\ session = NoSession
  /\ NoHistory

NextPending ==
  \/ CreateEntity(MaxPendEntities)
  \/ \E e \in Created(ecs) : AddNew(e, "A", MaxPendInst)
  \/ \E e \in Created(ecs) : RemoveComponent(e, "A")
  \/ \E e \in Created(ecs) : RemoveEntity(e, MaxPendQueue)
  \/ UpdateBegin
  \/ StartSystem
  \/ Visit
  \/ UpdateEnd

SpecPending == InitPending /\ [][NextPending]_vars

\* The component type index: component objects, fresh or already attached
\* somewhere, added to and removed from entities.
NextIndex ==
  \/ CreateEntity(MaxIndexEntities)
  \/ \E e \in Created(ecs), t \in DataTypes : AddNew(e, t, MaxIndexInst)
  \/ \E e \in Created(ecs), i \in 1 .. Len(ecs.insts) : AddExisting(e, i)
  \/ \E e \in Created(ecs), t \in DataTypes : RemoveComponent(e, t)
  \/ \E e \in Created(ecs) : RemoveEntity(e, MaxQueue)
  \/ UpdateBegin
  \/ UpdateEnd

SpecIndex == Init /\ [][NextIndex]_vars

\* The hierarchy.
NextHier ==
  \/ CreateEntity(MaxHierEntities)
  \/ \E c \in Created(ecs), p \in Created(ecs) : SetParent(c, p, MaxHierInst)
  \/ \E e \in Created(ecs) : RemoveParent(e)
  \/ \E e \in Created(ecs) : DespawnRecursive(e)
  \/ UpdateBegin
  \/ UpdateEnd

SpecHier == Init /\ [][NextHier]_vars

\* despawnRecursive and the destruction loop of the next update().  No
\* call can be made while the loop runs: it calls nothing but destroyEntity.
NextDespawn ==
  \/ pc # "flush" /\ CreateEntity(MaxDespEntities)
  \/ pc # "flush" /\ \E c \in Created(ecs), p \in Created(ecs) : SetParent(c, p, MaxDespInst)
  \/ pc # "flush" /\ \E e \in Created(ecs) : DespawnRecursive(e)
  \/ UpdateBegin
  \/ FlushStep
  \/ FlushEnd

SpecDespawn == Init /\ [][NextDespawn]_vars

\* Buffered events.
NextBuffer ==
  \/ \E t \in EvTypes : PushEvent(t)
  \/ UpdateBegin
  \/ UpdateEnd

SpecBuffer == Init /\ [][NextBuffer]_vars

\* Observers and immediate triggers.
NextObservers ==
  \/ CreateEntity(MaxObsEntities)
  \/ \E c \in Created(ecs), p \in Created(ecs) : SetParent(c, p, MaxObsInst)
  \/ \E t \in EvTypes, cb \in Callbacks : AddObserver(t, cb)
  \/ \E e \in Created(ecs), t \in EvTypes, cb \in Callbacks : AddEntityObserver(e, t, cb)
  \/ \E t \in EvTypes, e \in Created(ecs) \cup {NoEnt} : Trigger(t, e)

SpecObservers == Init /\ [][NextObservers]_vars

\* A recorded live run and its replay.
NextReplay ==
  \/ StartRecording
  \/ \E view \in Views, dt \in 0 .. 1 : MakeIntent(view, dt)
  \/ \E k \in 1 .. MaxIntents, after \in BOOLEAN : LiveApply(k, after)
  \/ StopAndReplay

SpecReplay == InitReplay /\ [][NextReplay]_vars

----------------------------------------------------------------------------
\* Properties.

\* The timestamps of the intents applied live never decrease.
AppliedInOrder ==
  \A j \in 1 .. Len(session.applied), k \in 1 .. Len(session.applied) :
    j < k => session.applied[j] <= session.applied[k]

IsPrefix(p, q) == Len(p) <= Len(q) /\ \A k \in 1 .. Len(p) : p[k] = q[k]

\* How often callback cb was invoked by the latest call.
Invocations(w, cb) == Cardinality({k \in 1 .. Len(w.calls) : w.calls[k].cb = cb})

\* The chain of parents above e: parent, grandparent, ... (k bounds the walk).
RECURSIVE Ancestors(_, _, _)
Ancestors(w, e, k) ==
  IF k = 0 \/ getParent(w, e) = NoEnt THEN {}
  ELSE {getParent(w, e)} \cup Ancestors(w, getParent(w, e), k - 1)

\* Entities queued for destruction and not destroyed.
PendingLive == {e \in Range(ecs.entitiesToDestroy) : ~isDestroyed(ecs, e)}

\* C2: after the flush at the end of update(), every entity that was queued
\* is destroyed and absent from the entity table, from every system cache
\* and from every component type index.
FlushedGone ==
  [][(pc = "run" /\ pc' = "idle") =>
       \A e \in Range(ecs.entitiesToDestroy) :
         /\ isDestroyed(ecs', e)
         /\ e \notin ecs'.entities
         /\ \A s \in 1 .. Len(ecs'.cache) : e \notin Range(ecs'.cache[s])
         /\ \A t \in CompTypes : get(ecs', e, t) \notin Range(query(ecs', t))]_vars

\* C3: for all entities A and B, A.getParent() is B exactly when
\* B.getChildren() includes A.
HierarchySymmetry ==
  \A a \in Created(ecs), b \in Created(ecs) :
    (getParent(ecs, a) = b) <=> (a \in Range(getChildren(ecs, b)))

\* C4: an entity has a component of type C exactly when the type index of
\* C contains the entity's instance of C.
IndexConsistent ==
  \A e \in Created(ecs), t \in CompTypes :
    has(ecs, e, t) <=> (get(ecs, e, t) \in Range(query(ecs, t)))

\* C5: an entity of the entity table is in the cache of a non-global
\* system or Query exactly when it has every required component type.
CacheMatches ==
  \A s \in 1 .. Len(ecs.systems) :
    ~ecs.systems[s].isGlobal =>
      \A e \in ecs.entities :
        (e \in Range(getSystemEntities(ecs, s))) <=> hasAll(ecs, e, ecs.systems[s].req)

\* C6: an event is readable exactly during the frame after the one in
\* which it was pushed: not before the next swap, and not after the swap
\* that follows it.
BufferedLatency ==
  \A k \in DOMAIN pushed, t \in EvTypes :
    (k \in Range(readEvents(ecs, t))) <=> (pushed[k].type = t /\ pushed[k].swaps = 1)

BufferedLatencyWitness ==
  \E j \in DOMAIN pushed, k \in DOMAIN pushed, l \in DOMAIN pushed :
    /\ pushed[j].swaps = 0 /\ pushed[k].swaps = 1 /\ pushed[l].swaps = 2
    /\ k \in Range(readEvents(ecs, pushed[k].type))

SnapshotIteration ==
  (pc = "run" /\ runSys > 0) =>
    /\ IsPrefix(visited, atStart)
    /\ Exhausted => visited = atStart

\* C9: trigger with a target also invokes the observers registered for
\* the event type on the target's parent and on every further ancestor.
Bubbles ==
  (triggered # NoTrigger /\ triggered.target # NoEnt) =>
    \A a \in Ancestors(ecs, triggered.target, ecs.nextEntityID) :
      \A cb \in Range(ecs.entityObservers[a][triggered.ev]) :
        Invocations(ecs, cb) > 0

\* C10: an entity queued by removeEntity stays visible until the flush:
\* queueing changes nothing but the queue, only the flush step of update()
\* sets a destroyed flag or takes an entity out of the table, and while an
\* entity is pending it is in the table, in the cache of every system it
\* matches, its components are in the type index, and a system run that
\* has finished iterating has visited it.
PendingVisibleNow ==
  /\ \A e \in PendingLive :
       /\ e \in ecs.entities
       /\ \A s \in 1 .. Len(ecs.systems) :
            (~ecs.systems[s].isGlobal /\ hasAll(ecs, e, ecs.systems[s].req))
              => e \in Range(getSystemEntities(ecs, s))
       /\ \A t \in CompTypes : has(ecs, e, t) => get(ecs, e, t) \in Range(query(ecs, t))
  /\ (pc = "run" /\ runSys > 0 /\ Exhausted) =>
       \A e \in PendingLive :
         e \in Range(getSystemEntities(ecs, IterOf(ecs, runSys))) => e \in Range(visited)

PendingVisible ==
  [][/\ PendingVisibleNow'
     /\ (ecs'.destroyed # ecs.destroyed \/ ecs.entities \ ecs'.entities # {})
          => (pc = "run" /\ pc' = "idle")
     /\ Len(ecs'.entitiesToDestroy) > Len(ecs.entitiesToDestroy)
          => /\ ecs'.destroyed = ecs.destroyed
             /\ ecs'.entities = ecs.entities
             /\ ecs'.cache = ecs.cache
             /\ ecs'.componentsByType = ecs.componentsByType
             /\ ecs'.components = ecs.components]_vars

PendingVisibleWitness ==
  /\ pc = "run"
  /\ visited # << >>
  /\ visited[Len(visited)] \in PendingLive
  /\ visited[Len(visited)] \in ecs.entities

\* C11: an entity given to despawnRecursive becomes destroyed only when
\* every descendant queued by the same call is destroyed already.
DescendantsFirst ==
  [][\A k \in 1 .. Len(despawned) :
       (~isDestroyed(ecs, despawned[k].root) /\ isDestroyed(ecs', despawned[k].root))
         => despawned[k].handled \ {despawned[k].root} \subseteq ecs.destroyed]_vars

\* The intent objects of the world.
IsIntent(w, i) == i \in 1 .. Len(w.insts) /\ w.insts[i].type \in IntentTypes

\* C12: with the application's systems registered, every intent of any
\* type whose processed flag has become true has its owning entity
\* destroyed eventually, by the flush of that update() or of a later one.
ProcessedCleaned ==
  \A i \in 1 .. (MaxAppIntents + MaxAppIntents + 2) :
    (IsIntent(ecs, i) /\ ecs.insts[i].value.processed)
      ~> (IsIntent(ecs, i) /\ isDestroyed(ecs, ecs.insts[i].entity))

\* The number of times a system has acted on intent i.
ActedOn(w, i) == Cardinality({k \in 1 .. Len(w.acted) : w.acted[k] = i})

Rank(kind) == IF kind = "callback" THEN 1 ELSE IF kind = "hook" THEN 2 ELSE 3

InRankOrder(log) ==
  \A j \in 1 .. Len(log), k \in 1 .. Len(log) :
    j < k => Rank(log[j].kind) <= Rank(log[k].kind)

\* C14: removeComponent(E, C) calls the registered destroy callbacks, then
\* the static onRemove hook, then the OnRemove observers, each of them
\* still finding E.has(C) true and E.get(C) the component; only after them
\* is the component detached and the type index and the caches updated.
RemoveNotifiesFirst ==
  /\ InRankOrder(ecs.notified)
  /\ \A k \in 1 .. Len(ecs.notified) :
       LET n == ecs.notified[k]
           t == ecs.insts[n.component].type
       IN n.op = "remove" =>
            /\ n.has /\ n.got = n.component /\ n.indexed
            /\ ~has(ecs, n.entity, t)
            /\ n.component \notin Range(ecs.componentsByType[t])
            /\ \A s \in 1 .. Len(ecs.systems) :
                 ecs.systems[s].req = <<t>> => n.entity \notin Range(ecs.cache[s])

\* A removal that made all three kinds of notification, of an entity that
\* was in a system's cache.
RemoveNotifiesFirstWitness ==
  /\ {ecs.notified[k].kind : k \in 1 .. Len(ecs.notified)} = {"callback", "hook", "observer"}
  /\ \A k \in 1 .. Len(ecs.notified) : ecs.notified[k].op = "remove"
  /\ \E s \in 1 .. Len(ecs.systems) : ecs.systems[s].req = <<"LifecycleTestComponent">>

\* C15: addComponent(E, c) attaches c and updates the type index, re-checks
\* E against every system, and only then calls the initialize callbacks,
\* the static onAdd hook and the OnAdd observers, in this order: each of
\* them finds E.has(type) true and E in the cache of every system it matches.
AddNotifiesLast ==
  /\ InRankOrder(ecs.notified)
  /\ \A k \in 1 .. Len(ecs.notified) :
       LET n == ecs.notified[k]
       IN n.op = "add" => n.has /\ n.got = n.component /\ n.indexed /\ n.cached

\* An addition that made all three kinds of notification, of an entity
\* that a system's cache took in.
AddNotifiesLastWitness ==
  /\ {ecs.notified[k].kind : k \in 1 .. Len(ecs.notified)} = {"callback", "hook", "observer"}
  /\ \A k \in 1 .. Len(ecs.notified) : ecs.notified[k].op = "add"
  /\ \E s \in 1 .. Len(ecs.systems) :
       /\ ecs.systems[s].req = <<"LifecycleTestComponent">>
       /\ ecs.notified[1].entity \in Range(ecs.cache[s])

\* C16: when a system throws during update() the call is left at once:
\* until the next update() no later system runs, and the destruction
\* queue is neither flushed nor changed by the aborted call.
ThrowAborts ==
  [][thrownBy' # 0 =>
       /\ pc' = "idle" /\ runSys' = 0
       /\ ecs'.destroyed = ecs.destroyed
       /\ thrownBy = 0 => ecs' = ecs]_vars

\* The first of two systems threw while an entity was queued for destruction.
ThrowAbortsWitness ==
  /\ thrownBy = 1
  /\ Len(ecs.systems) > 1
  /\ ecs.entitiesToDestroy # << >>
  /\ ecs.destroyed = {}

\* C17: only update() flushes the destruction queue: an entity queued for
\* destruction is, after any startup() or fixedUpdate() call, still queued,
\* not destroyed, in the entity table, in the caches it was in and in the
\* type index.
OnlyUpdateFlushes ==
  [][/\ ecs'.destroyed # ecs.destroyed => session'.call = "update"
     /\ session'.call \in {"startup", "fixedUpdate"} =>
          \A e \in Range(ecs.entitiesToDestroy) :
            /\ e \in Range(ecs'.entitiesToDestroy)
            /\ ~isDestroyed(ecs, e) => ~isDestroyed(ecs', e) /\ e \in ecs'.entities
            /\ \A s \in 1 .. Len(ecs.cache) :
                 e \in Range(ecs.cache[s]) => e \in Range(ecs'.cache[s])
            /\ \A t \in CompTypes :
                 (has(ecs, e, t) /\ get(ecs, e, t) \in Range(query(ecs, t)))
                   => (has(ecs', e, t) /\ get(ecs', e, t) \in Range(query(ecs', t)))]_vars

\* A fixedUpdate() whose cleanup system queued a processed intent's entity
\* and left it alive.
OnlyUpdateFlushesWitness ==
  /\ session.call = "fixedUpdate"
  /\ ecs.entitiesToDestroy # << >>
  /\ \A e \in Range(ecs.entitiesToDestroy) :
       e \in ecs.entities /\ ecs.insts[get(ecs, e, "NavigateIntent")].value.processed

\* A step of the replay loop that reconstructed its record's intent.
Reconstructed == Len(session'.applied) > Len(session.applied)

\* The loop body spawned the intent on a new entity and ran a full
\* update(): the update() calls made are as many as the records
\* reconstructed.
SpawnedThenUpdated ==
  /\ session'.updates = Len(session'.applied)
  /\ Reconstructed =>
       LET i == Len(ecs.insts) + 1
       IN /\ ecs.nextEntityID \notin Created(ecs)
          /\ ecs'.insts[i].entity = ecs.nextEntityID
          /\ ecs.nextEntityID \in Created(ecs')
          /\ ecs'.insts[i].type \in {"LoginIntent", "NavigateIntent"} =>
               /\ ecs'.insts[i].value.processed
               /\ isDestroyed(ecs', ecs.nextEntityID)

AscendingTimestamps ==
  \A j \in 1 .. Len(session.applied), k \in 1 .. Len(session.applied) :
    j < k =>
      LET a == session.records[session.applied[j]]
          b == session.records[session.applied[k]]
      IN \/ a.timestamp < b.timestamp
         \/ a.timestamp = b.timestamp /\ session.applied[j] < session.applied[k]

\* Two records of equal timestamp, the later recorded of higher priority,
\* were applied in recorded order.
AscendingTimestampsWitness ==
  /\ session.applied = <<1, 2>>
  /\ session.records[1].timestamp = session.records[2].timestamp
  /\ session.records[1].priority < session.records[2].priority

\* The positions in session.records of the records of a sequence.
RecordedAt(records) == [k \in 1 .. Len(records) |-> records[k].recorded]

\* C20: a record whose type is not registered with the recorder is
\* skipped: its loop step spawns nothing and runs no update(), the loop
\* goes on, and the records reconstructed are all the others met so far,
\* in order.
SkipsUnregistered ==
  [][/\ session'.applied =
          RecordedAt(SelectSeq(SubSeq(session'.sorted, 1, session'.k - 1),
                               LAMBDA r : r.type \in session.recorder.intentTypes))
     /\ (/\ session.k \in 1 .. Len(session.sorted)
         /\ session.sorted[session.k].type \notin session.recorder.intentTypes)
          => /\ ecs' = Fresh(ecs)
             /\ session'.updates = session.updates
             /\ session'.k = session.k + 1]_vars

\* A session whose first record is of an unregistered type was replayed
\* to its end: the second record was applied.
SkipsUnregisteredWitness ==
  /\ session.k = 3
  /\ session.sorted[1].type \notin session.recorder.intentTypes
  /\ session.applied = <<session.sorted[2].recorded>>
  /\ session.updates = 1

\* The calls of a log that are record() calls made after the latest
\* startRecording and before the first stopRecording that follows it.
RecordedCalls(log) ==
  LET starts == {k \in 1 .. Len(log) : log[k].op = "startRecording"}
      s      == IF starts = {} THEN Len(log) + 1
                ELSE CHOOSE k \in starts : \A j \in starts : j <= k
      stops  == {k \in s + 1 .. Len(log) : log[k].op = "stopRecording"}
      e      == IF stops = {} THEN Len(log) + 1
                ELSE CHOOSE k \in stops : \A j \in stops : k <= j
  IN {k \in s + 1 .. e - 1 : log[k].op = "record"}

\* The n-th member of a set of positions.
Nth(I, n) == CHOOSE k \in I : Cardinality({j \in I : j <= k}) = n

\* C21: the session that stopRecording() returns holds one record for
\* each intent passed to record() while recording since the latest
\* startRecording(), in call order, and nothing else: calls of record()
\* while not recording and the records of earlier sessions are not in it.
SessionHoldsRecorded ==
  (session.log # << >> /\ session.log[Len(session.log)].op = "stopRecording")
    => LET I   == RecordedCalls(session.log)
           out == session.returned[Len(session.returned)]
       IN /\ Len(out.records) = Cardinality(I)
          /\ out.metadata.totalIntents = Cardinality(I)
          /\ \A n \in 1 .. Cardinality(I) :
               LET intent == session.log[Nth(I, n)].intent
               IN /\ out.records[n].type = intent.type
                  /\ out.records[n].timestamp = intent.fields.timestamp
                  /\ out.records[n].data.targetView = intent.fields.targetView

\* startRecording, record, stopRecording, record, startRecording,
\* stopRecording: the first session holds one record, the second none.
SessionHoldsRecordedWitness ==
  /\ Len(session.log) = 6
  /\ session.log[1].op = "startRecording"
  /\ session.log[2].op = "record"
  /\ session.log[3].op = "stopRecording"
  /\ session.log[4].op = "record"
  /\ session.log[5].op = "startRecording"
  /\ session.log[6].op = "stopRecording"
  /\ Len(session.returned[1].records) = 1
  /\ Len(session.returned[2].records) = 0

\* The entities whose component map holds instance i.
Holders(w, i) == {e \in Created(w) : \E t \in CompTypes : get(w, e, t) = i}

\* C22: a component instance is in the component map of at most one
\* entity, and the back-reference of every instance in the component map
\* of an entity names that entity.
OneHolder ==
  \A i \in 1 .. Len(ecs.insts) :
    /\ Cardinality(Holders(ecs, i)) <= 1
    /\ \A e \in Holders(ecs, i) : ecs.insts[i].entity = e

\* What a system is handed when its iterator is run to the end in world w:
\* per entity of the cache of s, the entity and the tuple of its
\* components of the required types.
Handed(w, s) ==
  [k \in 1 .. Len(getSystemEntities(w, s)) |->
     LET e == getSystemEntities(w, s)[k]
     IN [entity |-> e,
         tuple  |-> [j \in 1 .. Len(w.systems[s].req) |-> get(w, e, w.systems[s].req[j])]]]

\* The class-style system and the Query of the function-style system of
\* each registration of both styles.
StylePairs(w) ==
  {<<c, q>> \in (1 .. Len(w.systems)) \X (1 .. Len(w.systems)) :
     /\ (c - 1) \div 3 = (q - 1) \div 3
     /\ w.systems[c].stage = "Update" /\ ~w.systems[c].isGlobal
     /\ w.systems[q].stage = "None"}

\* C23: a class-style system with componentsRequired [A, B] and a
\* function-style system with query(A, B), registered at the same point,
\* are handed the same entities in the same order with the same component
\* tuples, in every state that structural changes lead to, between and
\* during their runs.
StylesAgree ==
  \A p \in StylePairs(ecs) : Handed(ecs, p[1]) = Handed(ecs, p[2])

\* Both systems are handed two entities that came to match after the
\* registration, in an order that is not the order of creation.
StylesAgreeWitness ==
  \E p \in StylePairs(ecs) :
    /\ Len(Handed(ecs, p[1])) = 2
    /\ Handed(ecs, p[1])[1].entity > Handed(ecs, p[1])[2].entity
    /\ Handed(ecs, p[2])[1].tuple # Handed(ecs, p[2])[2].tuple

----------------------------------------------------------------------------
\* The stored text is not the JSON text of an object with a username that
\* is null or a string, a boolean isLoggedIn and a number loginTimestamp.
Malformed(text) ==
  \/ text.form \in {"empty", "garbage", "null"}
  \/ /\ text.form = "object"
     /\ \/ \E k \in {"username", "isLoggedIn", "loginTimestamp"} :
             \A j \in 1 .. Len(text.entries) : text.entries[j].key # k
        \/ \E j \in 1 .. Len(text.entries) :
             \/ /\ text.entries[j].key = "username"
                /\ text.entries[j].type \notin {"null", "string"}
             \/ /\ text.entries[j].key = "isLoggedIn"
                /\ text.entries[j].type # "boolean"
             \/ /\ text.entries[j].key = "loginTimestamp"
                /\ text.entries[j].type # "number"

\* C25: a load of malformed stored data reports failure and leaves the
\* resources of the world it was given exactly as they were: the
\* UserSession keeps its fields, or stays absent.
MalformedLoadRejected ==
  (session.op = "load" /\ Malformed(session.read))
    => /\ ~session.result
       /\ ecs.resources = session.target

\* A load of an object with a string username and a wrong-typed
\* isLoggedIn into a world with a default UserSession has failed.
MalformedLoadRejectedWitness ==
  /\ session.op = "load"
  /\ session.read.form = "object"
  /\ Len(session.read.entries) = 3
  /\ session.read.entries[2].type = "string"
  /\ "UserSession" \in DOMAIN session.target
  /\ ~session.result

\* The item under the session key in the place that the StorageManager reads.
EntryUnderKey(st) == IF st.isMemoryMode THEN st.memoryStorage ELSE st.localStorage

\* C26: after a load of malformed stored data, no entry remains under the
\* session key.
CorruptBlobCleared ==
  (session.op = "load" /\ Malformed(session.read))
    => EntryUnderKey(session.store) = NoItem

\* C27: no call of saveUserSession, loadUserSession or clearUserSession
\* raises an error, whatever localStorage does, and a load that follows a
\* save made while localStorage was inaccessible returns the saved session.
StorageFailureHidden ==
  /\ ~session.threw
  /\ (session.op = "load" /\ session.saved # << >> /\ session.inMemory)
       => /\ session.result
          /\ serializeUserSession(ecs) = session.saved

\* A logged-in session saved while every localStorage call throws has been
\* loaded into a world that had no UserSession.
StorageFailureHiddenWitness ==
  /\ session.op = "load"
  /\ session.store.mode = "down"
  /\ session.inMemory
  /\ session.target = NewWorld.resources
  /\ session.saved # << >>
  /\ session.saved[1].isLoggedIn
  /\ session.result

\* C28: a load that follows a save returns true and leaves in the world it
\* was given a UserSession whose username, isLoggedIn and loginTimestamp
\* equal the saved ones; after several saves they are those of the last.
SaveLoadRoundTrip ==
  (session.op = "load" /\ session.saved # << >> /\ session.steady)
    => /\ session.result
       /\ serializeUserSession(ecs) = session.saved

\* After two saves a logged-in session with a username and a timestamp
\* has been loaded from localStorage into a world that had no UserSession.
SaveLoadRoundTripWitness ==
  /\ session.op = "load"
  /\ session.steady
  /\ session.saves = 2
  /\ ~session.store.isMemoryMode
  /\ session.target = NewWorld.resources
  /\ session.result
  /\ getResource(ecs, "UserSession") =
       [username |-> "alice", isLoggedIn |-> TRUE, loginTimestamp |-> 1]

----------------------------------------------------------------------------
\* The places of the pieces of u that are not whitespace, and u without the
\* whitespace before the first and after the last of them.
Visible(u) == {k \in 1 .. Len(u) : u[k] \notin Whitespace}

Stripped(u) ==
  IF Visible(u) = {} THEN << >>
  ELSE SubSeq(u, CHOOSE k \in Visible(u) : \A j \in Visible(u) : k <= j,
                 CHOOSE k \in Visible(u) : \A j \in Visible(u) : j <= k)

\* The username of the LoginIntent that an update handles last among the
\* valid ones.
LastValid(names) ==
  names[CHOOSE k \in 1 .. Len(names) :
          /\ Visible(names[k]) # {}
          /\ \A j \in k + 1 .. Len(names) : Visible(names[j]) = {}]

\* C29: requestLogin rejects a username exactly when it is empty or all
\* whitespace; a rejected request spawns nothing and changes nothing; an
\* accepted one spawns one LoginIntent that holds the trimmed string, and
\* after the update that processes it UserSession.username is that string.
UsernameTrimmed ==
  /\ session.op = "request" =>
       /\ session.result <=> Visible(session.input) # {}
       /\ ~session.result => ecs = Fresh(session.before)
       /\ session.result =>
            /\ Len(ecs.insts) = Len(session.before.insts) + 1
            /\ ecs.insts[Len(ecs.insts)].type = "LoginIntent"
            /\ ecs.insts[Len(ecs.insts)].value.username = Stripped(session.input)
            /\ ecs.resources = session.before.resources
  /\ (session.op = "update" /\ \E k \in 1 .. Len(session.handled) :
                                  Visible(session.handled[k]) # {})
       => getResource(ecs, "UserSession").username
            = Join(Stripped(LastValid(session.handled)))

\* A username typed with whitespace on both sides was accepted and
\* processed: the UserSession holds it without the whitespace.
UsernameTrimmedWitness ==
  /\ session.op = "update"
  /\ session.handled = <<<<" ", "bob", "\t">>>>
  /\ Len(ecs.insts) >= 1
  /\ ecs.insts[1].type = "LoginIntent"
  /\ ecs.insts[1].value.username = <<"bob">>
  /\ getResource(ecs, "UserSession").username = "bob"

\* C30: with LoginProcessSystem, NavigationSystem and IntentCleanupSystem
\* registered in this order, the update() that finds a valid LoginIntent
\* completes the login: when it returns the session is logged in, every
\* NavigateIntent, the one that LoginProcessSystem spawned included, has
\* been processed, and the current scene is 'main-menu'.
LoginChainCompletes ==
  (session.op = "update" /\ \E k \in 1 .. Len(session.handled) :
                               Visible(session.handled[k]) # {})
    => /\ getResource(ecs, "UserSession").isLoggedIn
       /\ getResource(ecs, "GameState").currentScene = "main-menu"
       /\ \A i \in 1 .. Len(ecs.insts) :
            ecs.insts[i].type = "NavigateIntent" =>
              /\ ecs.insts[i].value.processed
              /\ i \in Range(ecs.acted)
       /\ \E i \in 1 .. Len(ecs.insts) :
            /\ i > Len(session.before.insts)
            /\ ecs.insts[i].type = "NavigateIntent"

\* The scene was 'login' and nobody was logged in; one update with a
\* LoginIntent for alice has logged her in and shown the main menu.
LoginChainCompletesWitness ==
  /\ session.op = "update"
  /\ session.handled = <<<<"alice">>>>
  /\ getResource(session.before, "GameState").currentScene = "login"
  /\ ~getResource(session.before, "UserSession").isLoggedIn
  /\ getResource(ecs, "UserSession").isLoggedIn
  /\ getResource(ecs, "GameState").currentScene = "main-menu"

----------------------------------------------------------------------------
\* C31: a system error raised during a frame is logged and does not leave
\* GameWorld.update(): the tick goes on, counts the frame and requests the
\* next one, whose callback is then pending.
FrameErrorContained ==
  (session.last = "update" /\ session.thrower # 0)
    => /\ session.logged
       /\ ~session.threw
       /\ session.frameCount > 0
       /\ session.animationFrameId = session.nextId - 1
       /\ session.animationFrameId \in session.pending

\* The NavigationSystem threw in one frame, with a NavigateIntent for the
\* game waiting; the update() of a later frame has run and has shown the
\* game.
FrameErrorContainedWitness ==
  /\ session.last = "update"
  /\ session.thrower = 0
  /\ session.errors = 1
  /\ session.isRunning
  /\ session.frameCount = 2
  /\ getResource(ecs, "GameState").currentScene = "game"

\* C39: at most one frame callback is pending while the loop is running
\* and none while it is stopped.
OneCallbackPending ==
  Cardinality(session.pending) <= (IF session.isRunning THEN 1 ELSE 0)

\* C32: every component instance in a type index is the current component
\* of that type of an entity that is not destroyed and is in the entity
\* table.
IndexHoldsCurrent ==
  \A t \in CompTypes :
    \A i \in Range(query(ecs, t)) :
      \E e \in ecs.entities :
        /\ ~isDestroyed(ecs, e)
        /\ has(ecs, e, t)
        /\ get(ecs, e, t) = i

\* The removal notifications that the world's latest call made about
\* component i of entity e: one per call of a callback.
RemovalNotes(w, kind, e, i) ==
  {k \in 1 .. Len(w.notified) :
     /\ w.notified[k].op = "remove"
     /\ w.notified[k].kind = kind
     /\ w.notified[k].entity = e
     /\ w.notified[k].component = i}

\* C33: the flush that destroys an entity makes, for each component the
\* entity still carries, the notifications of a removeComponent: one call
\* of every destroy callback of the type, one of the static onRemove hook
\* if the class has it, and one of every OnRemove observer of the entity.
DestroyNotifiesRemoval ==
  [][(pc = "run" /\ pc' = "idle") =>
       \A e \in Range(ecs.entitiesToDestroy) :
         \A t \in CompTypes :
           has(ecs, e, t) =>
             LET i == get(ecs, e, t)
             IN /\ Cardinality(RemovalNotes(ecs', "callback", e, i))
                     = Len(ecs.destroySystems[t])
                /\ Cardinality(RemovalNotes(ecs', "hook", e, i))
                     = (IF t \in Hooked THEN 1 ELSE 0)
                /\ Cardinality(RemovalNotes(ecs', "observer", e, i))
                     = Len(Observers(ecs, "OnRemove", e))]_vars

\* C34: after the flush of update(), no entity that is not destroyed has a
\* destroyed entity among its getChildren() or as its getParent().
FlushUnlinksDestroyed ==
  [][(pc = "run" /\ pc' = "idle") =>
       \A e \in Created(ecs') \ ecs'.destroyed :
         /\ \A c \in Range(getChildren(ecs', e)) : ~isDestroyed(ecs', c)
         /\ getParent(ecs', e) # NoEnt => ~isDestroyed(ecs', getParent(ecs', e))]_vars

\* C35: no destroyed entity is in the cached membership set of a system,
\* and none is among the entities a running system has been handed.
DestroyedNeverCached ==
  /\ \A s \in 1 .. Len(ecs.cache) :
       \A e \in Range(ecs.cache[s]) : ~isDestroyed(ecs, e)
  /\ \A k \in 1 .. Len(visited) : ~isDestroyed(ecs, visited[k])

\* C36: the entities that were queued for destruction when a throwing
\* system aborted update() stay queued until an update() completes, and
\* the flush of that update() destroys them.
AbortKeepsPending ==
  /\ session.aborts > 0 =>
       /\ session.held \subseteq Range(ecs.entitiesToDestroy)
       /\ session.held \cap ecs.destroyed \subseteq session.was
  /\ session.op = "update" => session.flushed \subseteq ecs.destroyed

\* An update() was aborted with an entity queued that matches the systems
\* and was not destroyed, and the update() that then completed destroyed it.
AbortKeepsPendingWitness ==
  /\ session.op = "update"
  /\ session.flushed # {}
  /\ session.flushed \cap session.was = {}
  /\ \E e \in session.flushed : has(ecs, e, "A")

\* C37: a GameWorld initialized after a successful login was processed
\* has a UserSession that is logged in with the username of that login.
LoginRestored ==
  (session.op = "start" /\ session.user # "null")
    => /\ getResource(ecs, "UserSession").isLoggedIn
       /\ getResource(ecs, "UserSession").username = session.user

\* C38: from a state in memory mode, every step but reset() leaves the
\* StorageManager in memory mode and localStorage as it was, whatever
\* localStorage has come to do.
MemoryModeSticks ==
  [][(session.store.isMemoryMode /\ session'.op # "reset")
       => /\ session'.store.isMemoryMode
          /\ session'.store.localStorage = session.store.localStorage]_vars

\* In memory mode, with localStorage working again and holding another
\* text, a load has read the text kept in memory.
MemoryModeSticksWitness ==
  /\ session.op = "load"
  /\ session.store.isMemoryMode
  /\ session.store.mode = "ok"
  /\ session.read = session.store.memoryStorage
  /\ session.read # session.store.localStorage
  /\ session.read # NoItem

====
